---- MODULE Spec2Model ----
(***************************************************************************)
(* A model of the Revenium OpenAI middleware: the stream wrappers, the     *)
(* patched-method handlers, the fire-and-forget tracking pipeline and the  *)
(* instance patcher.  Each subsystem has its own specification over the    *)
(* shared variables; a specification leaves the other subsystems'          *)
(* variables unchanged.                                                    *)
(***************************************************************************)
EXTENDS Integers, Sequences, FiniteSets, TLC

VARIABLES
    strm,       \* the stream wrapper under iteration (SpecStream)
    call,       \* the intercepted call in progress (SpecCall)
    factory,    \* module state: request-handler factory, initializationPromise, caches
    trk,        \* the tracking pipeline of one tracking call (SpecTrack)
    inst        \* the client instance under patching or provider detection

vars == <<strm, call, factory, trk, inst>>

(***************************************************************************)
(* JavaScript values.  A value is a record tagged with its typeof class so *)
(* that undefined, null, 0 and "" stay distinct and the code's truthiness  *)
(* tests (x || d, if (x), x && y) are computed as the code computes them.  *)
(***************************************************************************)
Undefined == [t |-> "undefined"]
Null == [t |-> "null"]
Num(n) == [t |-> "number", v |-> n]
Str(s) == [t |-> "string", v |-> s]
Bool(b) == [t |-> "boolean", v |-> b]

Truthy(x) ==
    CASE x.t = "undefined" -> FALSE
      [] x.t = "null" -> FALSE
      [] x.t = "number" -> x.v # 0
      [] x.t = "string" -> x.v # ""
      [] x.t = "boolean" -> x.v
      [] OTHER -> TRUE

\* a || b
OrElse(a, b) == IF Truthy(a) THEN a ELSE b

\* typeof x === 'object' && x !== null  (also: x && typeof x === 'object')
IsObject(x) == x.t = "object"

(***************************************************************************)
(* Bounds of the model.                                                    *)
(***************************************************************************)
\* longest underlying chunk sequence
MaxChunks == 2

(***************************************************************************)
(* Usage objects and chunks of the underlying streams.                     *)
(***************************************************************************)
\* a chat usage object { prompt_tokens, completion_tokens, total_tokens }
ChatUsage(p, c) ==
    [t |-> "object",
     prompt_tokens |-> Num(p), completion_tokens |-> Num(c),
     total_tokens |-> Num(p + c),
     input_tokens |-> Undefined, output_tokens |-> Undefined,
     reasoning_tokens |-> Undefined, cached_tokens |-> Undefined,
     reasoning_detail |-> Undefined, cached_detail |-> Undefined]

\* a Responses API usage object { input_tokens, output_tokens, total_tokens }
ResponsesUsage(p, c) ==
    [t |-> "object",
     prompt_tokens |-> Undefined, completion_tokens |-> Undefined,
     total_tokens |-> Num(p + c),
     input_tokens |-> Num(p), output_tokens |-> Num(c),
     reasoning_tokens |-> Undefined, cached_tokens |-> Undefined,
     reasoning_detail |-> Undefined, cached_detail |-> Undefined]

\* {} : an object none of whose usage fields is set
EmptyUsage ==
    [t |-> "object",
     prompt_tokens |-> Undefined, completion_tokens |-> Undefined,
     total_tokens |-> Undefined,
     input_tokens |-> Undefined, output_tokens |-> Undefined,
     reasoning_tokens |-> Undefined, cached_tokens |-> Undefined,
     reasoning_detail |-> Undefined, cached_detail |-> Undefined]

ChatUsages == {ChatUsage(3, 2), ChatUsage(1, 0)}
ResponsesUsages == {ResponsesUsage(3, 2), ResponsesUsage(1, 0)}

\* a chunk object; every reader sees the fields it does not use as undefined
Chunk(id, model, usage, content, finish, type, response) ==
    [t |-> "object", id |-> id, model |-> model, usage |-> usage,
     content |-> content, finish_reason |-> finish, type |-> type,
     response |-> response]

\* a chunk that is not an object (a primitive in the stream)
PrimitiveChunk ==
    [t |-> "string", v |-> "[DONE]",
     id |-> Undefined, model |-> Undefined, usage |-> Undefined,
     content |-> Undefined, finish_reason |-> Undefined, type |-> Undefined,
     response |-> Undefined]

\* OpenAI.ChatCompletionChunk as StreamingWrapper reads it: id, usage,
\* choices[0]?.delta?.content
SWChunks ==
    {Chunk(id, Str("gpt"), u, c, Undefined, Undefined, Undefined) :
        id \in {Undefined, Str("id1"), Str("id2")},
        u \in {Undefined} \cup ChatUsages,
        c \in {Undefined, Str("ab")}}

\* chunks as createTrackingStreamWrapper reads them: isStreamChunk (id, model), usage
TChunks ==
    {Chunk(id, m, u, Undefined, Undefined, Undefined, Undefined) :
        id \in {Undefined, Str("id1")},
        m \in {Undefined, Str("gpt")},
        u \in {Undefined} \cup ChatUsages}
    \cup {PrimitiveChunk}

\* chunks as createResponsesTrackingStreamWrapper reads them: model, id, usage,
\* finish_reason
RChunks ==
    {Chunk(id, m, u, Undefined, f, Undefined, Undefined) :
        id \in {Undefined, Str("id1")},
        m \in {Undefined, Str("gpt")},
        u \in {Undefined} \cup ResponsesUsages,
        f \in {Undefined, Str("stop")}}
    \cup {PrimitiveChunk}

\* the response object of a response.completed event
FinalResponse(id, usage) ==
    [t |-> "object", id |-> id, model |-> Str("gpt"), usage |-> usage,
     status |-> Str("completed")]

\* stream events as ResponsesInterface.createStreaming reads them: type, delta,
\* response
EChunks ==
    {Chunk(Undefined, Undefined, Undefined, d, Undefined, Str(ty), r) :
        d \in {Undefined, Str("ab")},
        ty \in {"response.output_text.delta", "response.completed", "response.created"},
        r \in {Undefined, FinalResponse(Str("id1"), Undefined),
               FinalResponse(Str("id1"), ResponsesUsage(3, 2))}}

WrapperKinds ==
    {"StreamingWrapper", "createTrackingStreamWrapper",
     "createResponsesTrackingStreamWrapper", "ResponsesInterface.createStreaming"}

ChunksOf(kind) ==
    CASE kind = "StreamingWrapper" -> SWChunks
      [] kind = "createTrackingStreamWrapper" -> TChunks
      [] kind = "createResponsesTrackingStreamWrapper" -> RChunks
      [] OTHER -> EChunks

\* all sequences over S of length at most n
SeqsUpTo(S, n) == UNION {[1..k -> S] : k \in 0..n}

(***************************************************************************)
(* trackUsageAsync as the stream wrappers see it: a synchronous call that  *)
(* takes the tracking data and starts the delivery in the background.  The *)
(* wrapper's record keeps the tracking data of every call it has made.     *)
(***************************************************************************)
TrackingData(requestId, model, pt, ct, tt, rt, cached, finishReason, isStreamed, hasTTFT) ==
    [requestId |-> requestId, model |-> model, promptTokens |-> pt,
     completionTokens |-> ct, totalTokens |-> tt,
     reasoningTokens |-> rt, cachedTokens |-> cached,
     finishReason |-> finishReason, isStreamed |-> isStreamed,
     hasTTFT |-> hasTTFT]

trackUsageAsyncCall(s, trackingData) ==
    [s EXCEPT !.events = Append(@, trackingData)]

(***************************************************************************)
(* The state of one wrapped stream: the underlying stream (src, srcEnd,    *)
(* pos), the wrapper's generator (pc), the wrapper's fields and closure    *)
(* variables, what the consumer has received (out, thrown) and the         *)
(* tracking calls made so far (events).                                    *)
(***************************************************************************)
NoError == "none"
StreamError == "E_stream"

NewStream(kind, src, srcEnd) ==
    [kind |-> kind, src |-> src, srcEnd |-> srcEnd, pos |-> 0,
     pc |-> "suspendedStart", started |-> FALSE, term |-> "none",
     out |-> <<>>, thrown |-> NoError, events |-> <<>>,
     \* StreamingWrapper: this.usage = {}, this.requestId = randomUUID(),
     \* this.model = params.model; responses wrapper: finalUsage = null,
     \* model = '', requestId = ''
     usage |-> IF kind = "StreamingWrapper" THEN EmptyUsage ELSE Null,
     requestId |-> IF kind = "StreamingWrapper" THEN Str("uuid") ELSE Str(""),
     model |-> IF kind = "StreamingWrapper" THEN Str("gpt") ELSE Str(""),
     firstTokenSeen |-> FALSE,
     completed |-> FALSE,
     accumulatedResponse |-> Null,
     finishReason |-> Null,
     finalResponse |-> Null]

(***************************************************************************)
(* StreamingWrapper (interfaces.ts)                                        *)
(***************************************************************************)
buildTrackingPayload(s, finishReason, withTTFT) ==
    TrackingData(s.requestId, s.model,
                 OrElse(s.usage.prompt_tokens, Num(0)),
                 OrElse(s.usage.completion_tokens, Num(0)),
                 OrElse(s.usage.total_tokens, Num(0)),
                 s.usage.reasoning_detail, s.usage.cached_detail,
                 finishReason, TRUE, withTTFT /\ s.firstTokenSeen)

\* the body of the for-await loop, up to the yield
SW_OnChunk(s, chunk) ==
    [s EXCEPT
        !.firstTokenSeen = @ \/ Truthy(chunk.content),
        !.usage = IF Truthy(chunk.usage) THEN chunk.usage ELSE @,
        !.requestId = IF Truthy(chunk.id) THEN chunk.id ELSE @]

\* SW_Finally without the completed flag: the finally block tracks on every exit
SW_Finally_Unguarded(s) ==
    trackUsageAsyncCall(s, buildTrackingPayload(s, Str("cancelled"), TRUE))

\* the finally block: runs on every exit of the try statement
SW_Finally(s) ==
    IF ~s.completed
    THEN trackUsageAsyncCall(s, buildTrackingPayload(s, Str("cancelled"), TRUE))
    ELSE s

\* the loop has ended normally: the rest of the try block, then finally
SW_OnEnd(s) ==
    SW_Finally(
        trackUsageAsyncCall([s EXCEPT !.completed = TRUE],
                            buildTrackingPayload(s, Null, TRUE)))

\* the underlying stream raised e: the catch block, then finally; e is re-thrown
SW_OnRaise(s, e) ==
    SW_Finally(
        [trackUsageAsyncCall([s EXCEPT !.completed = TRUE],
                             buildTrackingPayload(s, Str("error"), FALSE))
            EXCEPT !.thrown = e])

\* the consumer called return() while the generator was suspended at the yield:
\* no catch block runs, only finally
SW_OnReturn(s) == SW_Finally(s)

(***************************************************************************)
(* createTrackingStreamWrapper (stream-wrapper.ts)                         *)
(***************************************************************************)
isStreamChunk(obj) ==
    /\ Truthy(obj) /\ IsObject(obj)
    /\ obj.id.t = "string" /\ obj.model.t = "string"

T_OnChunk(s, chunk) ==
    IF isStreamChunk(chunk)
    THEN LET first == IF ~Truthy(s.accumulatedResponse)
                      THEN [t |-> "object", id |-> chunk.id, model |-> chunk.model,
                            usage |-> ChatUsage(0, 0)]
                      ELSE s.accumulatedResponse
         IN [s EXCEPT !.accumulatedResponse =
                 IF Truthy(chunk.usage) THEN [first EXCEPT !.usage = chunk.usage]
                 ELSE first]
    ELSE s

T_OnEnd(s) ==
    IF Truthy(s.accumulatedResponse) /\ Truthy(s.accumulatedResponse.usage)
    THEN LET usage == s.accumulatedResponse.usage
         IN trackUsageAsyncCall(s,
                TrackingData(s.accumulatedResponse.id, s.accumulatedResponse.model,
                             usage.prompt_tokens,
                             OrElse(usage.completion_tokens, Num(0)),
                             usage.total_tokens,
                             usage.reasoning_tokens, usage.cached_tokens,
                             Null, TRUE, FALSE))
    ELSE s

\* catch (error) { logger.error(...); throw error; }
T_OnRaise(s, e) == [s EXCEPT !.thrown = e]

\* return() at the yield: the try statement has no finally block
T_OnReturn(s) == s

(***************************************************************************)
(* createResponsesTrackingStreamWrapper (request-handler.ts)               *)
(***************************************************************************)
R_OnChunk(s, chunk) ==
    LET seen == [s EXCEPT !.firstTokenSeen = TRUE]
    IN IF Truthy(chunk) /\ IsObject(chunk)
       THEN [seen EXCEPT
                !.model = IF Truthy(chunk.model) THEN chunk.model ELSE @,
                !.requestId = IF Truthy(chunk.id) THEN chunk.id ELSE @,
                !.usage = IF Truthy(chunk.usage) THEN chunk.usage ELSE @,
                !.finishReason =
                    IF Truthy(chunk.finish_reason) THEN chunk.finish_reason ELSE @]
       ELSE seen

R_OnEnd(s) ==
    IF Truthy(s.usage)
    THEN trackUsageAsyncCall(s,
            TrackingData(OrElse(s.requestId, Str("uuid")), s.model,
                         OrElse(s.usage.input_tokens, Num(0)),
                         OrElse(s.usage.output_tokens, Num(0)),
                         OrElse(s.usage.total_tokens, Num(0)),
                         s.usage.reasoning_tokens, s.usage.cached_tokens,
                         OrElse(s.finishReason, Str("completed")), TRUE,
                         s.firstTokenSeen))
    ELSE s

R_OnRaise(s, e) == [s EXCEPT !.thrown = e]

R_OnReturn(s) == s

(***************************************************************************)
(* ResponsesInterface.createStreaming (interfaces.ts): the wrapping        *)
(* generator has no try statement at all.                                  *)
(***************************************************************************)
E_OnChunk(s, chunk) ==
    [s EXCEPT
        !.finalResponse =
            IF chunk.type = Str("response.completed") /\ Truthy(chunk.response)
            THEN chunk.response ELSE @]

E_OnEnd(s) ==
    IF Truthy(s.finalResponse) /\ Truthy(s.finalResponse.usage)
    THEN LET usage == s.finalResponse.usage
         IN trackUsageAsyncCall(s,
                TrackingData(OrElse(s.finalResponse.id, Str("uuid")),
                             OrElse(s.finalResponse.model, Str("gpt")),
                             OrElse(usage.input_tokens, Num(0)),
                             OrElse(usage.output_tokens, Num(0)),
                             OrElse(usage.total_tokens, Num(0)),
                             usage.reasoning_detail, usage.cached_detail,
                             OrElse(s.finalResponse.status, Str("completed")),
                             TRUE, FALSE))
    ELSE s

E_OnRaise(s, e) == [s EXCEPT !.thrown = e]

E_OnReturn(s) == s

(***************************************************************************)
(* The async generators, driven by the consumer.  next() resumes the       *)
(* generator, which pulls one chunk from the underlying stream: a chunk is *)
(* processed and yielded, the end of the stream runs the code after the    *)
(* loop, a raise runs the catch path.  return() at a yield closes the      *)
(* underlying stream (whose return() is taken not to raise, as the SDK's   *)
(* Stream) and runs the finally blocks only.                               *)
(***************************************************************************)
OnChunk(s, chunk) ==
    CASE s.kind = "StreamingWrapper" -> SW_OnChunk(s, chunk)
      [] s.kind = "createTrackingStreamWrapper" -> T_OnChunk(s, chunk)
      [] s.kind = "createResponsesTrackingStreamWrapper" -> R_OnChunk(s, chunk)
      [] OTHER -> E_OnChunk(s, chunk)

OnEnd(s) ==
    CASE s.kind = "StreamingWrapper" -> SW_OnEnd(s)
      [] s.kind = "createTrackingStreamWrapper" -> T_OnEnd(s)
      [] s.kind = "createResponsesTrackingStreamWrapper" -> R_OnEnd(s)
      [] OTHER -> E_OnEnd(s)

OnRaise(s, e) ==
    CASE s.kind = "StreamingWrapper" -> SW_OnRaise(s, e)
      [] s.kind = "createTrackingStreamWrapper" -> T_OnRaise(s, e)
      [] s.kind = "createResponsesTrackingStreamWrapper" -> R_OnRaise(s, e)
      [] OTHER -> E_OnRaise(s, e)

OnReturn(s) ==
    CASE s.kind = "StreamingWrapper" -> SW_OnReturn(s)
      [] s.kind = "createTrackingStreamWrapper" -> T_OnReturn(s)
      [] s.kind = "createResponsesTrackingStreamWrapper" -> R_OnReturn(s)
      [] OTHER -> E_OnReturn(s)

Suspended(s) == s.pc \in {"suspendedStart", "suspendedYield"}

\* a wrapper that yields the chunk's text instead of the chunk
Yielded_Content(s, chunk) == chunk.content

\* yield chunk: what the consumer receives for a chunk of the underlying stream
Yielded(s, chunk) == chunk

\* a wrapper that reads one chunk ahead: a next() that finds two more chunks
\* takes both from the underlying stream and yields the first
PullChunk_ReadAhead ==
    /\ Suspended(strm) /\ strm.pos < Len(strm.src)
    /\ LET chunk == strm.src[strm.pos + 1]
           s == OnChunk(strm, chunk)
       IN strm' = [s EXCEPT !.pos = IF @ + 2 <= Len(strm.src) THEN @ + 2 ELSE @ + 1,
                            !.started = TRUE,
                            !.pc = "suspendedYield",
                            !.out = Append(@, Yielded(s, chunk))]
    /\ UNCHANGED <<call, factory, trk, inst>>

\* next(): the underlying stream has another chunk
PullChunk ==
    /\ Suspended(strm) /\ strm.pos < Len(strm.src)
    /\ LET chunk == strm.src[strm.pos + 1]
           s == OnChunk(strm, chunk)
       IN strm' = [s EXCEPT !.pos = @ + 1, !.started = TRUE,
                            !.pc = "suspendedYield",
                            !.out = Append(@, Yielded(s, chunk))]
    /\ UNCHANGED <<call, factory, trk, inst>>

\* next(): the underlying stream is exhausted and ends normally
PullEnd ==
    /\ Suspended(strm) /\ strm.pos = Len(strm.src) /\ strm.srcEnd = "end"
    /\ strm' = [OnEnd(strm) EXCEPT !.started = TRUE, !.pc = "completed",
                                   !.term = "end"]
    /\ UNCHANGED <<call, factory, trk, inst>>

\* next(): the underlying stream raises
PullRaise ==
    /\ Suspended(strm) /\ strm.pos = Len(strm.src) /\ strm.srcEnd = "raise"
    /\ strm' = [OnRaise(strm, StreamError) EXCEPT !.started = TRUE,
                                                  !.pc = "completed",
                                                  !.term = "raise"]
    /\ UNCHANGED <<call, factory, trk, inst>>

\* return() while suspended at the yield: the consumer stops early
ConsumerReturn ==
    /\ strm.pc = "suspendedYield"
    /\ strm' = [OnReturn(strm) EXCEPT !.pc = "completed", !.term = "cancel"]
    /\ UNCHANGED <<call, factory, trk, inst>>

\* return() before the first next(): the generator body never runs
ConsumerReturnBeforeStart ==
    /\ strm.pc = "suspendedStart"
    /\ strm' = [strm EXCEPT !.pc = "completed", !.term = "cancel"]
    /\ UNCHANGED <<call, factory, trk, inst>>

Idle == [state |-> "idle"]

InitStream ==
    /\ \E kind \in WrapperKinds :
       \E src \in SeqsUpTo(ChunksOf(kind), MaxChunks) :
       \E srcEnd \in {"end", "raise"} :
           strm = NewStream(kind, src, srcEnd)
    /\ call = Idle /\ factory = Idle /\ trk = Idle /\ inst = Idle

NextStream ==
    \/ PullChunk
    \/ PullEnd
    \/ PullRaise
    \/ ConsumerReturn
    \/ ConsumerReturnBeforeStart

SpecStream == InitStream /\ [][NextStream]_vars

(***************************************************************************)
(* Responses of the original create methods, and the type guards           *)
(* (type-guards.ts).                                                       *)
(***************************************************************************)
\* an array value (Array.isArray(x)); typeof [] is 'object'
Arr == [t |-> "array"]

\* typeof x === 'object'  (true of null, as in JavaScript)
TypeofObject(x) == x.t \in {"object", "array", "null"}

\* a ?? b
Coalesce(a, b) == IF a.t \in {"undefined", "null"} THEN b ELSE a

\* a response object; finish_reason stands for choices?.[0]?.finish_reason
Response(id, model, usage, choices, finish, data, object) ==
    [t |-> "object", id |-> id, model |-> model, usage |-> usage,
     choices |-> choices, finish_reason |-> finish, data |-> data,
     object |-> object]

\* usage { prompt_tokens, total_tokens } without completion_tokens
EmbeddingUsage(p) ==
    [EmptyUsage EXCEPT !.prompt_tokens = Num(p), !.total_tokens = Num(p)]

ChatResponses ==
    {Response(id, Str("gpt"), u, ch, IF ch = Arr THEN f ELSE Undefined,
              Undefined, Undefined) :
        id \in {Undefined, Str("id1")},
        u \in {Undefined, EmbeddingUsage(4)} \cup ChatUsages,
        ch \in {Undefined, Arr},
        f \in {Undefined, Str("stop")}}

EmbeddingResponses ==
    {Response(Undefined, m, u, Undefined, Undefined, d, Str("list")) :
        m \in {Undefined, Str("emb")},
        u \in {Undefined, EmbeddingUsage(4)},
        d \in {Undefined, Arr}}

ResponsesResponses ==
    {Response(id, Str("gpt"), u, Undefined, f, Undefined, Undefined) :
        id \in {Undefined, Str("id1")},
        u \in {Undefined, EmptyUsage} \cup ResponsesUsages,
        f \in {Undefined, Str("stop")}}

\* a resolved value that is not an object: a string body
PrimitiveResponse == Str("text")

\* the stream object an original create resolves with when params.stream is set
StreamObject == [t |-> "object", stream |-> "original"]

\* the wrapper a streaming handler returns around it
WrappedStream(kind) == [t |-> "object", stream |-> kind]

isOpenAIChatResponse(obj) ==
    /\ Truthy(obj) /\ TypeofObject(obj)
    /\ obj.id.t = "string"
    /\ obj.model.t = "string"
    /\ TypeofObject(obj.usage)
    /\ obj.usage # Null
    /\ obj.usage.prompt_tokens.t = "number"
    /\ obj.usage.completion_tokens.t = "number"
    /\ obj.usage.total_tokens.t = "number"
    /\ obj.choices = Arr

isOpenAIEmbeddingResponse(obj) ==
    /\ Truthy(obj) /\ TypeofObject(obj)
    /\ obj.model.t = "string"
    /\ TypeofObject(obj.usage)
    /\ obj.usage # Null
    /\ obj.usage.prompt_tokens.t = "number"
    /\ obj.usage.total_tokens.t = "number"
    /\ obj.data = Arr
    /\ obj.object.t = "string"

hasValidUsage(obj) ==
    /\ Truthy(obj) /\ TypeofObject(obj)
    /\ TypeofObject(obj.usage)
    /\ obj.usage # Null
    /\ obj.usage.prompt_tokens.t = "number"
    /\ obj.usage.total_tokens.t = "number"

(***************************************************************************)
(* trackUsageAsync's mock response and request, and buildPayload           *)
(* (usage-tracker.ts, payload-builder.ts): the payload a tracking call     *)
(* leads to is a function of its tracking data.                            *)
(***************************************************************************)
mockResponse(td) ==
    [t |-> "object", id |-> td.requestId, model |-> td.model,
     usage |-> [EmptyUsage EXCEPT
                   !.prompt_tokens = td.promptTokens,
                   !.completion_tokens = td.completionTokens,
                   !.total_tokens = td.totalTokens,
                   !.reasoning_tokens =
                       IF Truthy(td.reasoningTokens) THEN td.reasoningTokens
                       ELSE Undefined,
                   !.cached_tokens =
                       IF Truthy(td.cachedTokens) THEN td.cachedTokens
                       ELSE Undefined],
     choices |-> Arr, finish_reason |-> td.finishReason]

mockRequest(td) == [model |-> td.model, stream |-> td.isStreamed]

\* a variant that reports no output tokens for chat, as for embeddings
buildPayload_NoOutputTokens(operationType, response, request) ==
    [operationType |-> operationType, model |-> response.model,
     transactionId |-> OrElse(response.id, Str("chat-uuid")),
     inputTokenCount |-> response.usage.prompt_tokens,
     outputTokenCount |-> Num(0),
     totalTokenCount |-> response.usage.total_tokens,
     reasoningTokenCount |-> Undefined,
     cacheCreationTokenCount |-> Undefined,
     cacheReadTokenCount |-> Undefined,
     isStreamed |-> request.stream]

buildPayload(operationType, response, request) ==
    IF operationType # "CHAT"
    THEN [operationType |-> "EMBED", model |-> response.model,
          transactionId |-> Str("embed-uuid"),
          inputTokenCount |-> response.usage.prompt_tokens,
          outputTokenCount |-> Num(0),
          totalTokenCount |-> response.usage.total_tokens,
          reasoningTokenCount |-> Undefined,
          cacheCreationTokenCount |-> Undefined,
          cacheReadTokenCount |-> Undefined,
          isStreamed |-> FALSE]
    ELSE [operationType |-> "CHAT", model |-> response.model,
          transactionId |-> OrElse(response.id, Str("chat-uuid")),
          inputTokenCount |-> response.usage.prompt_tokens,
          outputTokenCount |-> OrElse(response.usage.completion_tokens, Num(0)),
          totalTokenCount |-> response.usage.total_tokens,
          reasoningTokenCount |-> Coalesce(response.usage.reasoning_tokens, Undefined),
          cacheCreationTokenCount |-> Undefined,
          cacheReadTokenCount |-> Coalesce(response.usage.cached_tokens, Undefined),
          isStreamed |-> request.stream]

\* the payload sendReveniumMetrics builds for a trackUsageAsync call
PayloadOf(td) == buildPayload("CHAT", mockResponse(td), mockRequest(td))

(***************************************************************************)
(* Errors.  An upstream error is either network-shaped or not; the         *)
(* interception layer's own errors are named by their messages.            *)
(***************************************************************************)
UpstreamErrors == {"E_network", "E_api"}
InitFailedError == "Middleware initialization failed - cannot process request"
NoSpecificError == "OpenAI request failed without specific error"
ResponsesNoSpecificError == "OpenAI Responses API request failed without specific error"
InvalidResponseError == "Invalid response from OpenAI Responses API"
NotInitializedError == "RequestHandlerFactory not initialized. Call initialize() first."

\* the outcome of an async operation
Ok(v) == [ok |-> TRUE, value |-> v, error |-> NoError]
Err(e) == [ok |-> FALSE, value |-> Undefined, error |-> e]

\* error-handler.ts (not among the sources): classifyError tells
\* network-shaped errors by their message
classifyError(e) == IF e = "E_network" THEN "network" ELSE "other"

\* the handlers' transformError option: a network-shaped error becomes a new
\* NetworkError, any other Error is passed on as it is
transformError(e) ==
    IF classifyError(e) = "network" THEN "NetworkError" ELSE e

\* error-handler.ts (not among the sources): runs the operation; a failure is
\* re-thrown (transformed) when rethrow is set and swallowed otherwise
safeAsyncOperation(r, rethrow, transform) ==
    IF r.ok THEN r
    ELSE IF rethrow THEN Err(IF transform THEN transformError(r.error) ELSE r.error)
    ELSE Ok(Undefined)

(***************************************************************************)
(* The intercepted call (instance-patcher.ts) and the request handlers     *)
(* (request-handler.ts).  A handler's continuation after the original call *)
(* has settled is a function of the call record and the outcome: it fixes  *)
(* the tracking calls made and what the caller's promise settles with.     *)
(***************************************************************************)
Methods == {"chat", "embeddings", "responses"}

NewCall(method, stream) ==
    [state |-> "active", method |-> method, stream |-> stream,
     pc |-> "start", awaiting |-> "none",
     origInvoked |-> 0, origOutcome |-> "none", origValue |-> Undefined,
     origError |-> NoError,
     result |-> "pending", value |-> Undefined, error |-> NoError,
     events |-> <<>>]

Settle(c, r, events) ==
    [c EXCEPT !.pc = "done",
              !.result = IF r.ok THEN "resolved" ELSE "rejected",
              !.value = r.value, !.error = r.error,
              !.events = @ \o events]

TrackUsage(td) == [fn |-> "trackUsageAsync", data |-> td]

\* the operation handleNonStreamingRequest hands to safeAsyncOperation, after
\* originalCreate has resolved with response: the tracking calls it makes
NonStreaming_Events(response) ==
    IF hasValidUsage(response) /\ isOpenAIChatResponse(response)
    THEN <<TrackUsage(
            TrackingData(response.id, response.model,
                         response.usage.prompt_tokens,
                         OrElse(response.usage.completion_tokens, Num(0)),
                         response.usage.total_tokens,
                         response.usage.reasoning_tokens,
                         response.usage.cached_tokens,
                         OrElse(response.finish_reason, Null),
                         FALSE, FALSE))>>
    ELSE <<>>

\* if (!result) throw new Error(...); return result;
ResultOrThrow(r, message) ==
    IF r.ok /\ ~Truthy(r.value) THEN Err(message) ELSE r

handleNonStreamingRequest(c, outcome) ==
    LET r == safeAsyncOperation(outcome, TRUE, TRUE)
    IN Settle(c, ResultOrThrow(r, NoSpecificError),
              IF outcome.ok THEN NonStreaming_Events(outcome.value) ELSE <<>>)

\* try { stream = await originalCreate(...); return wrapper } catch { throw error }
handleStreamingRequest(c, outcome) ==
    Settle(c, IF outcome.ok THEN Ok(WrappedStream("createTrackingStreamWrapper"))
              ELSE Err(outcome.error),
           <<>>)

Embeddings_Events(response) ==
    IF isOpenAIEmbeddingResponse(response)
    THEN <<[fn |-> "trackEmbeddingsUsageAsync",
            data |-> [transactionId |-> Str("embed-uuid"), model |-> response.model,
                      promptTokens |-> response.usage.prompt_tokens,
                      totalTokens |-> response.usage.total_tokens]]>>
    ELSE <<>>

\* a variant of the catch block that logs and does not re-throw
handleEmbeddingsRequest_Catch_Swallow(e) == Ok(Undefined)

\* handleEmbeddingsRequest's catch block: log, then throw error
handleEmbeddingsRequest_Catch(e) == Err(e)

handleEmbeddingsRequest(c, outcome) ==
    IF outcome.ok
    THEN Settle(c, Ok(outcome.value), Embeddings_Events(outcome.value))
    ELSE Settle(c, handleEmbeddingsRequest_Catch(outcome.error), <<>>)

\* the operation handleResponsesNonStreamingRequest hands to safeAsyncOperation
ResponsesNonStreaming_Op(outcome) ==
    IF ~outcome.ok THEN outcome
    ELSE IF ~Truthy(outcome.value) \/ ~TypeofObject(outcome.value)
    THEN Err(InvalidResponseError)
    ELSE outcome

ResponsesNonStreaming_Events(response) ==
    IF Truthy(response) /\ TypeofObject(response) /\ Truthy(response.usage)
    THEN <<TrackUsage(
            TrackingData(OrElse(response.id, Str("uuid")),
                         OrElse(response.model, Str("gpt")),
                         OrElse(response.usage.input_tokens, Num(0)),
                         OrElse(response.usage.output_tokens, Num(0)),
                         OrElse(response.usage.total_tokens, Num(0)),
                         response.usage.reasoning_tokens,
                         response.usage.cached_tokens,
                         OrElse(response.finish_reason, Str("completed")),
                         FALSE, FALSE))>>
    ELSE <<>>

handleResponsesNonStreamingRequest(c, outcome) ==
    LET r == safeAsyncOperation(ResponsesNonStreaming_Op(outcome), TRUE, TRUE)
    IN Settle(c, ResultOrThrow(r, ResponsesNoSpecificError),
              IF outcome.ok THEN ResponsesNonStreaming_Events(outcome.value)
              ELSE <<>>)

handleResponsesStreamingRequest(c, outcome) ==
    Settle(c, IF outcome.ok
              THEN Ok(WrappedStream("createResponsesTrackingStreamWrapper"))
              ELSE Err(outcome.error),
           <<>>)

\* routeChatRequest / routeEmbeddingsRequest / routeResponsesRequest: the
\* handler a call is dispatched to, applied to the original call's outcome
RouteHandler(c, outcome) ==
    CASE c.method = "chat" /\ c.stream -> handleStreamingRequest(c, outcome)
      [] c.method = "chat" /\ ~c.stream -> handleNonStreamingRequest(c, outcome)
      [] c.method = "embeddings" -> handleEmbeddingsRequest(c, outcome)
      [] c.method = "responses" /\ c.stream ->
            handleResponsesStreamingRequest(c, outcome)
      [] OTHER -> handleResponsesNonStreamingRequest(c, outcome)

\* what the original create method may resolve with
OriginalValues(c) ==
    IF c.stream /\ c.method # "embeddings" THEN {StreamObject}
    ELSE {Null, PrimitiveResponse} \cup
         (CASE c.method = "chat" -> ChatResponses
            [] c.method = "embeddings" -> EmbeddingResponses
            [] OTHER -> ResponsesResponses)

(***************************************************************************)
(* The request-handler factory (request-handler-factory.ts) and the        *)
(* patched methods' steps.                                                 *)
(***************************************************************************)
NewFactory ==
    [dependencies |-> FALSE, initializationPromise |-> "null", initStarted |-> 0]

\* the patched method is called: metadata extracted, then
\* await ensureFactoryInitialized(), which starts the initialisation if no
\* promise is cached and the factory is not initialised
CallBegin ==
    /\ call.state = "idle"
    /\ \E method \in Methods, stream \in BOOLEAN :
          /\ method = "embeddings" => ~stream
          /\ call' = [NewCall(method, stream) EXCEPT
                        !.pc = "awaitInit",
                        !.awaiting = IF factory.dependencies THEN "none" ELSE "init"]
    /\ factory' =
          IF ~factory.dependencies /\ factory.initializationPromise = "null"
          THEN [factory EXCEPT !.initializationPromise = "pending",
                               !.initStarted = @ + 1]
          ELSE factory
    /\ UNCHANGED <<strm, trk, inst>>

\* initializeRequestHandlerFactoryAsync: the dynamic import resolves and the
\* factory is initialised
InitResolve ==
    /\ factory.initializationPromise = "pending"
    /\ factory' = [factory EXCEPT !.initializationPromise = "fulfilled",
                                  !.dependencies = TRUE]
    /\ UNCHANGED <<strm, call, trk, inst>>

\* the dynamic import rejects: the factory stays uninitialised
InitReject ==
    /\ factory.initializationPromise = "pending"
    /\ factory' = [factory EXCEPT !.initializationPromise = "rejected"]
    /\ UNCHANGED <<strm, call, trk, inst>>

\* ensureFactoryInitialized() has resolved: the request is routed and the
\* handler invokes the original method
RouteRequest ==
    /\ call.state = "active" /\ call.pc = "awaitInit"
    /\ \/ call.awaiting = "none"
       \/ call.awaiting = "init" /\ factory.initializationPromise = "fulfilled"
    /\ call' = IF factory.dependencies
               THEN [call EXCEPT !.pc = "awaitOriginal", !.origInvoked = @ + 1]
               ELSE Settle(call, Err(NotInitializedError), <<>>)
    /\ UNCHANGED <<strm, factory, trk, inst>>

\* a patched method that falls back to the original call when
\* ensureFactoryInitialized() has rejected
InitFailed_FallsBack ==
    /\ call.state = "active" /\ call.pc = "awaitInit"
    /\ call.awaiting = "init" /\ factory.initializationPromise = "rejected"
    /\ call' = [call EXCEPT !.pc = "awaitOriginal", !.origInvoked = @ + 1]
    /\ UNCHANGED <<strm, factory, trk, inst>>

\* ensureFactoryInitialized() has rejected: the patched method throws its own
\* error
InitFailed ==
    /\ call.state = "active" /\ call.pc = "awaitInit"
    /\ call.awaiting = "init" /\ factory.initializationPromise = "rejected"
    /\ call' = Settle(call, Err(InitFailedError), <<>>)
    /\ UNCHANGED <<strm, factory, trk, inst>>

\* the original method resolves; the handler's continuation runs
OriginalResolves ==
    /\ call.state = "active" /\ call.pc = "awaitOriginal"
    /\ \E v \in OriginalValues(call) :
          call' = RouteHandler([call EXCEPT !.origOutcome = "resolved",
                                            !.origValue = v], Ok(v))
    /\ UNCHANGED <<strm, factory, trk, inst>>

\* the original method rejects; the handler's continuation runs
OriginalRejects ==
    /\ call.state = "active" /\ call.pc = "awaitOriginal"
    /\ \E e \in UpstreamErrors :
          call' = RouteHandler([call EXCEPT !.origOutcome = "rejected",
                                            !.origError = e], Err(e))
    /\ UNCHANGED <<strm, factory, trk, inst>>

\* the caller has its answer; the next call can be made
CallDone ==
    /\ call.state = "active" /\ call.pc = "done"
    /\ call' = Idle
    /\ UNCHANGED <<strm, factory, trk, inst>>

InitCall ==
    /\ call = Idle /\ factory = NewFactory
    /\ strm = Idle /\ trk = Idle /\ inst = Idle

NextCall ==
    \/ CallBegin
    \/ InitResolve
    \/ InitReject
    \/ RouteRequest
    \/ InitFailed
    \/ OriginalResolves
    \/ OriginalRejects
    \/ CallDone

SpecCall == InitCall /\ [][NextCall]_vars

(***************************************************************************)
(* The metering pipeline behind a tracking call (usage-tracker.ts) and the *)
(* caller that made it.  trackUsageAsync and trackEmbeddingsUsageAsync are *)
(* called by the handlers without await; trackImageUsageAsync and          *)
(* trackAudioUsageAsync are async functions awaited by wrapApiCall         *)
(* (interfaces.ts), whose promise chain is started but not returned.       *)
(***************************************************************************)
Operations == {"chat", "embeddings", "responses", "image", "audio"}

\* the operations served through wrapApiCall
WrappedOperations == {"image", "audio"}

\* the responses the original API call may resolve with
TrackedResponses == {"response1", "response2"}

NewTracking(op, response) ==
    [state |-> "active", op |-> op, response |-> response,
     caller |-> "awaitOriginal", value |-> "none",
     stage |-> "none", build |-> "none", send |-> "none", print |-> "none",
     operation |-> "none", chain |-> "none"]

\* try { await sendToRevenium(payload) } finally { printUsageSummary(payload) }
\* a throw in the finally block replaces the outcome of the try block
TryFinally(send, print) ==
    IF ~print.ok THEN print ELSE send

\* promise.then(() => logger.debug(...))
ThenHandler(r) == IF r.ok THEN Ok(Undefined) ELSE r

\* a chain without its final .catch
CatchHandler_Missing(r) == r

\* promise.catch(error => logger.warn(...))
CatchHandler(r) == IF r.ok THEN r ELSE Ok(Undefined)

\* the promise chain a tracking function starts, given the outcome of the
\* async operation (build, send, print) it wraps
ChainOutcome(op, operation) ==
    IF op \in WrappedOperations
    THEN \* Promise.resolve().then(async () => {...}).then(...).catch(...)
         CatchHandler(ThenHandler(operation))
    ELSE \* sendReveniumMetrics(...).then(...).catch(...)
         CatchHandler(ThenHandler(safeAsyncOperation(operation, FALSE, FALSE)))

\* a variant in which the tracking function returns its promise chain
TrackingPromise_Chain(t) ==
    [settled |-> t.chain \in {"fulfilled", "rejected"}, ok |-> t.chain = "fulfilled"]

\* the promise an async tracking function returns to wrapApiCall: its body
\* starts the chain and falls off the end, so the promise is fulfilled
TrackingPromise(t) == [settled |-> TRUE, ok |-> TRUE]

PromiseState(r) == IF r.ok THEN "fulfilled" ELSE "rejected"

\* an intercepted call is made
T_ApiCall ==
    /\ trk.state = "idle"
    /\ \E op \in Operations, response \in TrackedResponses :
          trk' = NewTracking(op, response)
    /\ UNCHANGED <<strm, call, factory, inst>>

\* the original call resolves: the tracking function is called and starts its
\* chain; a handler then returns the response, wrapApiCall awaits the
\* tracking function's promise first
T_OriginalResolves ==
    /\ trk.state = "active" /\ trk.caller = "awaitOriginal"
    /\ trk' = [trk EXCEPT
                 !.stage = "build", !.operation = "pending", !.chain = "pending",
                 !.caller = IF trk.op \in WrappedOperations THEN "awaitTracking"
                            ELSE "returned",
                 !.value = IF trk.op \in WrappedOperations THEN "none"
                           ELSE trk.response]
    /\ UNCHANGED <<strm, call, factory, inst>>

\* wrapApiCall: await trackingCall(...) completes; return response, or the
\* catch block re-throws what the tracking call rejected with
T_TrackingCallReturns ==
    /\ trk.state = "active" /\ trk.caller = "awaitTracking"
    /\ TrackingPromise(trk).settled
    /\ trk' = IF TrackingPromise(trk).ok
              THEN [trk EXCEPT !.caller = "returned", !.value = trk.response]
              ELSE [trk EXCEPT !.caller = "threw", !.value = "E_tracking"]
    /\ UNCHANGED <<strm, call, factory, inst>>

\* the payload is built, or building throws and the operation is rejected
T_Build ==
    /\ trk.state = "active" /\ trk.stage = "build"
    /\ \/ trk' = [trk EXCEPT !.build = "ok", !.stage = "send"]
       \/ trk' = [trk EXCEPT !.build = "threw", !.stage = "settling",
                             !.operation = "rejected"]
    /\ UNCHANGED <<strm, call, factory, inst>>

\* the summary printed after the await instead of in a finally block
SummaryPrinted_AfterAwait(send, print) ==
    IF ~send.ok THEN "none" ELSE IF print.ok THEN "ok" ELSE "threw"

\* finally { printUsageSummary(payload) }: runs however the await ended
SummaryPrinted(send, print) == IF print.ok THEN "ok" ELSE "threw"

\* sendToRevenium settles, then the finally block prints the summary
T_SendSettles ==
    /\ trk.state = "active" /\ trk.stage = "send"
    /\ \E send \in {Ok(Undefined), Err("E_send")},
          print \in {Ok(Undefined), Err("E_print")} :
          trk' = [trk EXCEPT
                    !.send = PromiseState(send),
                    !.print = SummaryPrinted(send, print),
                    !.stage = "settling",
                    !.operation = PromiseState(TryFinally(send, print))]
    /\ UNCHANGED <<strm, call, factory, inst>>

\* the chain's .then and .catch callbacks run
T_ChainSettles ==
    /\ trk.state = "active" /\ trk.stage = "settling"
    /\ trk' = [trk EXCEPT
                 !.stage = "done",
                 !.chain = PromiseState(
                     ChainOutcome(trk.op,
                                  IF trk.operation = "fulfilled"
                                  THEN Ok(Undefined) ELSE Err("E_metering")))]
    /\ UNCHANGED <<strm, call, factory, inst>>

\* the call and its metering are over
T_Done ==
    /\ trk.state = "active" /\ trk.stage = "done"
    /\ trk.caller \in {"returned", "threw"}
    /\ trk' = Idle
    /\ UNCHANGED <<strm, call, factory, inst>>

InitTrack ==
    /\ trk = Idle
    /\ strm = Idle /\ call = Idle /\ factory = Idle /\ inst = Idle

NextTrack ==
    \/ T_ApiCall
    \/ T_OriginalResolves
    \/ T_TrackingCallReturns
    \/ T_Build
    \/ T_SendSettles
    \/ T_ChainSettles
    \/ T_Done

SpecTrack == InitTrack /\ [][NextTrack]_vars

\* the event loop resumes a function awaiting a settled promise and runs the
\* callbacks of a settled promise; nothing makes the delivery call settle
SpecTrackFair ==
    /\ SpecTrack
    /\ WF_vars(T_TrackingCallReturns)
    /\ WF_vars(T_ChainSettles)

(***************************************************************************)
(* Patching a client instance (instance-patcher.ts).  A create method is   *)
(* absent, a function, or a value that cannot be patched (bind or the      *)
(* assignment throws: not a function, or a read-only property).            *)
(***************************************************************************)
MaxPatchCalls == 3

CreateKinds == {"absent", "function", "unpatchable"}

\* the order in which patchInstance patches the methods
PatchOrder == <<"chat", "embeddings", "responses">>

NewInstance(hasBaseURL, creates) ==
    [state |-> "active", hasBaseURL |-> hasBaseURL, creates |-> creates,
     layers |-> [m \in Methods |-> 0],
     patched |-> FALSE,      \* patchedInstances.has(instance)
     provider |-> FALSE,     \* instanceProviders.has(instance)
     patchCalls |-> 0,
     threw |-> FALSE,        \* the last patchOpenAIInstance call threw
     logged |-> FALSE,       \* it logged 'Failed to patch OpenAI instance'
     returned |-> "none",    \* what it returned
     apiCall |-> "none", apiEvents |-> 0]

\* hasBaseURL || hasChat || hasEmbeddings
isOpenAIClientInstance(i) ==
    \/ i.hasBaseURL
    \/ i.creates["chat"] # "absent"
    \/ i.creates["embeddings"] # "absent"

\* patchChatCompletions / patchEmbeddings / patchResponses on a patching run
\* r = [inst, threw]: skip a missing method, wrap a function in one more
\* layer, throw on anything else
patchMethod(r, method) ==
    IF r.threw THEN r
    ELSE CASE r.inst.creates[method] = "absent" -> r
           [] r.inst.creates[method] = "function" ->
                [r EXCEPT !.inst.layers[method] = @ + 1]
           [] OTHER -> [r EXCEPT !.threw = TRUE]

\* the try block of patchInstance: validate, detect the provider, patch the
\* three methods and then mark the instance
patchInstance_Try(i) ==
    IF ~isOpenAIClientInstance(i) THEN [inst |-> i, threw |-> FALSE]
    ELSE LET r0 == [inst |-> [i EXCEPT !.provider = TRUE], threw |-> FALSE]
             r3 == patchMethod(patchMethod(patchMethod(r0, PatchOrder[1]),
                                           PatchOrder[2]), PatchOrder[3])
         IN IF r3.threw THEN r3
            ELSE [r3 EXCEPT !.inst.patched = TRUE]

\* a catch block that passes the exception on
patchInstance_Catch_Rethrow(r) == r

\* the catch block of patchInstance: the exception is logged and dropped
patchInstance_Catch(r) ==
    IF r.threw THEN [inst |-> [r.inst EXCEPT !.logged = TRUE], threw |-> FALSE]
    ELSE r

\* patchInstance: an exception on the way is logged and the instance is left
\* as the exception found it
patchInstance(i) ==
    LET r == patchInstance_Catch(patchInstance_Try(i))
    IN [r.inst EXCEPT !.threw = r.threw]

\* patchOpenAIInstance: skip an instance already marked, else patch it;
\* return instance
patchOpenAIInstance(i) ==
    LET entry == [i EXCEPT !.threw = FALSE, !.logged = FALSE, !.returned = "none"]
        exit == IF entry.patched THEN entry ELSE patchInstance(entry)
    IN [exit EXCEPT !.returned = IF exit.threw THEN "none" ELSE "instance"]

\* one call of a create method runs every interception layer around it, and
\* each layer's handler makes one tracking call for a well-formed response
EventsOfApiCall(i, method) == i.layers[method]

\* the host application creates a client
P_NewClient ==
    /\ inst.state = "idle"
    /\ \E hasBaseURL \in BOOLEAN, creates \in [Methods -> CreateKinds] :
          inst' = NewInstance(hasBaseURL, creates)
    /\ UNCHANGED <<strm, call, factory, trk>>

P_PatchOpenAIInstance ==
    /\ inst.state = "active"
    /\ inst.patchCalls < MaxPatchCalls
    /\ inst' = [patchOpenAIInstance(inst) EXCEPT !.patchCalls = @ + 1]
    /\ UNCHANGED <<strm, call, factory, trk>>

\* the host application calls one of the client's create methods
P_ApiCall ==
    /\ inst.state = "active"
    /\ \E method \in Methods :
          /\ inst.creates[method] = "function"
          /\ inst' = [inst EXCEPT !.apiCall = method,
                                  !.apiEvents = EventsOfApiCall(inst, method)]
    /\ UNCHANGED <<strm, call, factory, trk>>

InitPatch ==
    /\ inst = Idle
    /\ strm = Idle /\ call = Idle /\ factory = Idle /\ trk = Idle

NextPatch ==
    \/ P_NewClient
    \/ P_PatchOpenAIInstance
    \/ P_ApiCall

SpecPatch == InitPatch /\ [][NextPatch]_vars

(***************************************************************************)
(* The middleware interfaces (interfaces.ts) and the parameters every      *)
(* entry point hands to the original API method.  A call goes in through   *)
(* an interface method of the middleware client or through a patched       *)
(* method of a patched client.                                             *)
(***************************************************************************)
ChatEntries == {"CompletionsInterface.create", "CompletionsInterface.createStreaming"}
ResponsesEntries == {"ResponsesInterface.create", "ResponsesInterface.createStreaming"}
ImageEntries ==
    {"ImagesInterface.generate", "ImagesInterface.edit", "ImagesInterface.createVariation"}
AudioEntries ==
    {"AudioTranscriptionsInterface.create", "AudioTranslationsInterface.create",
     "AudioSpeechInterface.create"}
InterfaceEntries ==
    ChatEntries \cup {"EmbeddingsInterface.create"} \cup ResponsesEntries
    \cup ImageEntries \cup AudioEntries
PatchedEntries == {"chat.completions.create", "embeddings.create", "responses.create"}
Entries == InterfaceEntries \cup PatchedEntries

\* a parameters object: whether it has a usageMetadata field, its stream
\* flag and whether it has stream_options
Params(usageMetadata, stream, stream_options) ==
    [usageMetadata |-> usageMetadata, stream |-> stream,
     stream_options |-> stream_options]

ParamsSet ==
    {Params(um, st, so) : um \in BOOLEAN, st \in {Undefined, Bool(TRUE), Bool(FALSE)},
                          so \in BOOLEAN}

\* const { usageMetadata: metadata, ...cleanParams } = params
RestWithoutUsageMetadata(params) == [params EXCEPT !.usageMetadata = FALSE]

\* metadata-builder.ts (not among the sources): splits the usageMetadata
\* field off the parameters
extractMetadata(params) ==
    [metadata |-> params.usageMetadata,
     cleanParams |-> [params EXCEPT !.usageMetadata = FALSE]]

\* the method and stream flag a call is handled under
MethodOf(entry) ==
    CASE entry \in ChatEntries \cup {"chat.completions.create"} -> "chat"
      [] entry \in {"EmbeddingsInterface.create", "embeddings.create"} -> "embeddings"
      [] entry \in ResponsesEntries \cup {"responses.create"} -> "responses"
      [] entry \in ImageEntries -> "image"
      [] OTHER -> "audio"

StreamOf(entry, params) ==
    CASE entry \in {"CompletionsInterface.createStreaming",
                    "ResponsesInterface.createStreaming"} -> TRUE
      [] entry \in {"chat.completions.create", "responses.create"} ->
            Truthy(params.stream)
      [] OTHER -> FALSE

\* the parameters object passed to the original method
ForwardedParams(entry, params) ==
    CASE entry \in {"CompletionsInterface.create", "EmbeddingsInterface.create",
                    "ResponsesInterface.create"} ->
            \* this.client.chat.completions.create(params)
            params
      [] entry = "CompletionsInterface.createStreaming" ->
            \* { ...params, stream: true, stream_options: { include_usage: true } }
            [params EXCEPT !.stream = Bool(TRUE), !.stream_options = TRUE]
      [] entry = "ResponsesInterface.createStreaming" ->
            \* { ...params, stream: true }
            [params EXCEPT !.stream = Bool(TRUE)]
      [] entry \in ImageEntries \cup AudioEntries ->
            RestWithoutUsageMetadata(params)
      [] entry = "chat.completions.create" /\ Truthy(params.stream) ->
            \* handleStreamingRequest: { ...params, stream_options: {...} }
            [extractMetadata(params).cleanParams EXCEPT !.stream_options = TRUE]
      [] OTHER -> extractMetadata(params).cleanParams

\* a response of an image or audio endpoint
MediaResponse == Response(Undefined, Undefined, Undefined, Undefined, Undefined, Arr, Undefined)

\* what the original method of an entry point may resolve with
I_OriginalValues(c) ==
    IF c.stream THEN {StreamObject}
    ELSE IF c.method \in {"image", "audio"} THEN {MediaResponse}
    ELSE OriginalValues(c)

\* usage?.field
OptionalField(usage, field) ==
    IF usage.t \in {"undefined", "null"} THEN Undefined ELSE usage[field]

ErrorTrackingData ==
    TrackingData(Str("uuid"), Str("gpt"), Num(0), Num(0), Num(0), Undefined,
                 Undefined, Str("error"), FALSE, FALSE)

\* CompletionsInterface.create after the original call settled: the try
\* block tracks the response; its catch block tracks an error event and
\* re-throws, also when reading response.choices[0] threw
CompletionsInterface_create(c, outcome) ==
    IF outcome.ok /\ IsObject(outcome.value) /\ outcome.value.choices = Arr
    THEN LET response == outcome.value
         IN Settle(c, Ok(response),
              <<TrackUsage(
                  TrackingData(OrElse(response.id, Str("uuid")), response.model,
                      OrElse(OptionalField(response.usage, "prompt_tokens"), Num(0)),
                      OrElse(OptionalField(response.usage, "completion_tokens"), Num(0)),
                      OrElse(OptionalField(response.usage, "total_tokens"), Num(0)),
                      OptionalField(response.usage, "reasoning_detail"),
                      OptionalField(response.usage, "cached_detail"),
                      OrElse(response.finish_reason, Null), FALSE, FALSE))>>)
    ELSE Settle(c, Err(IF outcome.ok THEN "TypeError" ELSE outcome.error),
                <<TrackUsage(ErrorTrackingData)>>)

\* EmbeddingsInterface.create: reading response.usage.prompt_tokens throws on
\* a response without usage; the catch block logs and re-throws
EmbeddingsInterface_create(c, outcome) ==
    IF ~outcome.ok THEN Settle(c, Err(outcome.error), <<>>)
    ELSE IF ~IsObject(outcome.value) \/ ~Truthy(outcome.value.usage)
    THEN Settle(c, Err("TypeError"), <<>>)
    ELSE Settle(c, Ok(outcome.value),
                <<[fn |-> "trackEmbeddingsUsageAsync",
                   data |-> [transactionId |-> Str("uuid"),
                             model |-> outcome.value.model,
                             promptTokens |-> outcome.value.usage.prompt_tokens,
                             totalTokens |-> outcome.value.usage.total_tokens]]>>)

\* ResponsesInterface.create: tracks if (usage); the catch block logs and
\* re-throws
ResponsesInterface_create(c, outcome) ==
    IF ~outcome.ok THEN Settle(c, Err(outcome.error), <<>>)
    ELSE IF ~Truthy(outcome.value) THEN Settle(c, Err("TypeError"), <<>>)
    ELSE Settle(c, Ok(outcome.value),
                IF IsObject(outcome.value) /\ Truthy(outcome.value.usage)
                THEN ResponsesNonStreaming_Events(outcome.value)
                ELSE <<>>)

\* the two createStreaming methods: the wrapper around the stream is returned;
\* a rejection of the original call passes through
Interface_createStreaming(c, outcome) ==
    IF ~outcome.ok THEN Settle(c, Err(outcome.error), <<>>)
    ELSE Settle(c, Ok(WrappedStream(IF c.method = "chat" THEN "StreamingWrapper"
                                    ELSE "ResponsesInterface.createStreaming")),
                <<>>)

\* wrapApiCall: await apiCall(); await trackingCall(...); return response;
\* the catch block logs and re-throws
wrapApiCall(c, outcome) ==
    IF ~outcome.ok THEN Settle(c, Err(outcome.error), <<>>)
    ELSE Settle(c, Ok(outcome.value),
                <<[fn |-> IF c.method = "image" THEN "trackImageUsageAsync"
                          ELSE "trackAudioUsageAsync",
                   data |-> [transactionId |-> Str(c.method)]]>>)

\* the continuation of an entry point once the original call has settled
EntryHandler(c, outcome) ==
    CASE c.entry \in PatchedEntries -> RouteHandler(c, outcome)
      [] c.entry = "CompletionsInterface.create" -> CompletionsInterface_create(c, outcome)
      [] c.entry = "EmbeddingsInterface.create" -> EmbeddingsInterface_create(c, outcome)
      [] c.entry = "ResponsesInterface.create" -> ResponsesInterface_create(c, outcome)
      [] c.entry \in ImageEntries \cup AudioEntries -> wrapApiCall(c, outcome)
      [] OTHER -> Interface_createStreaming(c, outcome)

\* a call through an entry point: the original method is invoked with the
\* forwarded parameters
I_Call ==
    /\ call.state = "idle"
    /\ \E entry \in Entries, params \in ParamsSet :
          call' = [NewCall(MethodOf(entry), StreamOf(entry, params)) EXCEPT
                      !.pc = "awaitOriginal", !.origInvoked = 1]
                  @@ [entry |-> entry, params |-> params,
                      forwarded |-> ForwardedParams(entry, params)]
    /\ UNCHANGED <<strm, factory, trk, inst>>

I_OriginalResolves ==
    /\ call.state = "active" /\ call.pc = "awaitOriginal"
    /\ \E v \in I_OriginalValues(call) :
          call' = EntryHandler([call EXCEPT !.origOutcome = "resolved",
                                            !.origValue = v], Ok(v))
    /\ UNCHANGED <<strm, factory, trk, inst>>

I_OriginalRejects ==
    /\ call.state = "active" /\ call.pc = "awaitOriginal"
    /\ \E e \in UpstreamErrors :
          call' = EntryHandler([call EXCEPT !.origOutcome = "rejected",
                                            !.origError = e], Err(e))
    /\ UNCHANGED <<strm, factory, trk, inst>>

I_Done ==
    /\ call.state = "active" /\ call.pc = "done"
    /\ call' = Idle
    /\ UNCHANGED <<strm, factory, trk, inst>>

InitInterface ==
    /\ call = Idle
    /\ strm = Idle /\ factory = Idle /\ trk = Idle /\ inst = Idle

NextInterface ==
    \/ I_Call
    \/ I_OriginalResolves
    \/ I_OriginalRejects
    \/ I_Done

SpecInterface == InitInterface /\ [][NextInterface]_vars

(***************************************************************************)
(* Concurrent first requests (request-handler-factory.ts): several patched *)
(* calls are inside ensureFactoryInitialized at once.  Each caller runs    *)
(* the function's synchronous part in one step, up to its await.           *)
(***************************************************************************)
NumCallers == 3

Callers == 1..NumCallers

\* a variant without the cached promise
ShouldStartInitialization_NoCache(f) == ~f.dependencies

\* if (!requestHandlerFactory.isInitialized()) { if (!initializationPromise)
ShouldStartInitialization(f) ==
    ~f.dependencies /\ f.initializationPromise = "null"

\* the callers: where each is, the promise it awaits (numbered by the
\* initialisation that created it) and whether the factory was initialised
\* when it went on to routing
NewRace ==
    [state |-> "racing",
     pc |-> [c \in Callers |-> "idle"],
     awaits |-> [c \in Callers |-> 0],
     waited |-> [c \in Callers |-> FALSE],
     routedInitialized |-> [c \in Callers |-> FALSE]]

\* a patched method is called: ensureFactoryInitialized runs up to its await,
\* or returns at once when the factory is initialised
R_Enter ==
    /\ call.state = "racing"
    /\ \E c \in Callers :
          /\ call.pc[c] = "idle"
          /\ LET start == ShouldStartInitialization(factory)
                 f == IF start
                      THEN [factory EXCEPT !.initializationPromise = "pending",
                                           !.initStarted = @ + 1]
                      ELSE factory
             IN /\ factory' = f
                /\ call' = IF factory.dependencies
                           THEN [call EXCEPT !.pc[c] = "routed",
                                             !.waited[c] = FALSE,
                                             !.routedInitialized[c] = TRUE]
                           ELSE [call EXCEPT !.pc[c] = "awaiting",
                                             !.waited[c] = TRUE,
                                             !.awaits[c] = f.initStarted]
    /\ UNCHANGED <<strm, trk, inst>>

\* the awaited promise is settled: the caller goes on to routing, or the
\* patched method throws 'Middleware initialization failed'
R_Resume ==
    /\ call.state = "racing"
    /\ \E c \in Callers :
          /\ call.pc[c] = "awaiting"
          /\ factory.initializationPromise \in {"fulfilled", "rejected"}
          /\ call' = IF factory.initializationPromise = "fulfilled"
                     THEN [call EXCEPT !.pc[c] = "routed",
                                       !.routedInitialized[c] = factory.dependencies]
                     ELSE [call EXCEPT !.pc[c] = "failed"]
    /\ UNCHANGED <<strm, factory, trk, inst>>

\* a call is over; its caller may call again
R_Return ==
    /\ call.state = "racing"
    /\ \E c \in Callers :
          /\ call.pc[c] \in {"routed", "failed"}
          /\ call' = [call EXCEPT !.pc[c] = "idle"]
    /\ UNCHANGED <<strm, factory, trk, inst>>

InitRace ==
    /\ call = NewRace /\ factory = NewFactory
    /\ strm = Idle /\ trk = Idle /\ inst = Idle

NextRace ==
    \/ R_Enter
    \/ InitResolve
    \/ InitReject
    \/ R_Resume
    \/ R_Return

SpecRace == InitRace /\ [][NextRace]_vars

(***************************************************************************)
(* A wrapped stream being consumed while patched calls are made: the       *)
(* stream steps and the call steps together, over streams of two distinct  *)
(* chunks per wrapper.                                                     *)
(***************************************************************************)
PassChunks(kind) ==
    LET a == CHOOSE c \in ChunksOf(kind) : TRUE
        b == CHOOSE c \in ChunksOf(kind) : c # a
    IN {a, b}

InitPassThrough ==
    /\ \E kind \in WrapperKinds, srcEnd \in {"end", "raise"} :
          \E src \in SeqsUpTo(PassChunks(kind), MaxChunks) :
             strm = NewStream(kind, src, srcEnd)
    /\ call = Idle /\ factory = NewFactory
    /\ trk = Idle /\ inst = Idle

NextPassThrough ==
    \/ NextStream
    \/ NextCall

SpecPassThrough == InitPassThrough /\ [][NextPassThrough]_vars

(***************************************************************************)
(* Provider detection: detectProvider / detectProviderStrategy on one      *)
(* client.  A client is its constructor.name, its baseURL and whether it   *)
(* has a chat property; the environment is AZURE_OPENAI_ENDPOINT.  The     *)
(* steps are the iterations of the strategy loop.                          *)
(***************************************************************************)
\* String.prototype.toLowerCase on the strings of the model
ToLowerCase(s) ==
    CASE s = "OpenAI" -> "openai"
      [] s = "AzureOpenAI" -> "azureopenai"
      [] s = "Client" -> "client"
      [] s = "https://RES.AZURE.COM" -> "https://res.azure.com"
      [] s = "GPT4-Prod" -> "gpt4-prod"
      [] OTHER -> s

\* String.prototype.includes on the strings and the needles of the model
Includes(s, needle) ==
    needle \in (CASE s = "AzureOpenAI" -> {"Azure"}
                  [] s = "openai" -> {"openai"}
                  [] s = "azureopenai" -> {"azure", "openai"}
                  [] s = "https://api.openai.com/v1" -> {"openai", "api.openai.com"}
                  [] s = "https://res.openai.azure.com" -> {"openai", "azure"}
                  [] s = "https://res.azure.com" -> {"azure"}
                  [] s = "https://env.azure.com" -> {"azure"}
                  [] OTHER -> {})

\* constructor.name: missing, a string, or a static member that is not a string
ConstructorNames == {Undefined, Str("OpenAI"), Str("AzureOpenAI"), Str("Client"), Num(7)}

\* baseURL: missing, a string, a URL, or an object without toString
BaseURLs ==
    {Undefined, Str("https://api.openai.com/v1"), Str("https://res.openai.azure.com"),
     Str("https://RES.AZURE.COM"),
     [t |-> "URL", v |-> "https://res.openai.azure.com"],
     [t |-> "object", v |-> ""]}

Client(name, baseURL, hasChat) ==
    [t |-> "object", name |-> name, baseURL |-> baseURL, hasChat |-> hasChat]

Clients ==
    {Null} \cup {Client(n, b, ch) : n \in ConstructorNames, b \in BaseURLs, ch \in BOOLEAN}

\* process.env.AZURE_OPENAI_ENDPOINT
Envs == {Undefined, Str("https://env.azure.com")}

\* isOpenAIClientInstance on a client of this section
IsValidClient(client) ==
    /\ IsObject(client)
    /\ isOpenAIClientInstance(
           [hasBaseURL |-> client.baseURL.t \in {"string", "URL"},
            creates |-> [m \in {"chat", "embeddings", "responses"} |->
                            IF m = "chat" /\ client.hasChat THEN "function" ELSE "absent"]])

\* getBaseUrlString: [threw, value]
getBaseUrlString(client) ==
    IF ~IsObject(client) THEN [threw |-> FALSE, value |-> Undefined]
    ELSE CASE client.baseURL.t = "undefined" -> [threw |-> FALSE, value |-> Undefined]
           [] client.baseURL.t = "string" -> [threw |-> FALSE, value |-> client.baseURL]
           [] client.baseURL.t = "URL" -> [threw |-> FALSE, value |-> Str(client.baseURL.v)]
           [] OTHER -> [threw |-> TRUE, value |-> Undefined]

\* client?.constructor?.name
ConstructorName(client) == IF IsObject(client) THEN client.name ELSE Undefined

DETECTION_STRATEGIES ==
    << [name |-> "Constructor Name", priority |-> 100],
       [name |-> "Base URL", priority |-> 90],
       [name |-> "Environment Variables", priority |-> 80] >>

\* client?.constructor?.name?.includes("Azure") || false
Detect_ConstructorName(client) ==
    LET name == ConstructorName(client)
    IN CASE name.t = "undefined" -> "false"
         [] name.t = "string" -> IF Includes(name.v, "Azure") THEN "true" ELSE "false"
         [] OTHER -> "throw"

\* baseUrl?.toLowerCase().includes("azure") || false
Detect_BaseURL(client) ==
    LET baseUrl == getBaseUrlString(client)
    IN IF baseUrl.threw THEN "throw"
       ELSE IF baseUrl.value.t = "undefined" THEN "false"
       ELSE IF Includes(ToLowerCase(baseUrl.value.v), "azure") THEN "true" ELSE "false"

\* !isExplicitlyOpenAI && !!process.env.AZURE_OPENAI_ENDPOINT
Detect_Environment(client, env) ==
    LET baseUrl == getBaseUrlString(client)
        name == ConstructorName(client)
    IN IF baseUrl.threw THEN "throw"
       ELSE IF baseUrl.value.t = "string" /\ Includes(baseUrl.value.v, "api.openai.com")
            THEN "false"
       ELSE CASE name.t = "undefined" -> IF Truthy(env) THEN "true" ELSE "false"
              [] name.t = "string" ->
                  IF /\ Includes(ToLowerCase(name.v), "openai")
                     /\ ~Includes(ToLowerCase(name.v), "azure")
                  THEN "false"
                  ELSE IF Truthy(env) THEN "true" ELSE "false"
              [] OTHER -> "throw"

\* strategy.detect(client): "true", "false" or "throw"
Detect(strategy, client, env) ==
    CASE strategy.name = "Constructor Name" -> Detect_ConstructorName(client)
      [] strategy.name = "Base URL" -> Detect_BaseURL(client)
      [] OTHER -> Detect_Environment(client, env)

\* the comparator of the sort, turned around
ComparePriority_Ascending(a, b) == a.priority - b.priority

\* (a, b) => b.priority - a.priority
ComparePriority(a, b) == b.priority - a.priority

\* Array.prototype.sort (stable) with ComparePriority
RECURSIVE InsertSorted(_, _)
InsertSorted(sorted, x) ==
    IF sorted = <<>> THEN <<x>>
    ELSE IF ComparePriority(sorted[Len(sorted)], x) <= 0 THEN Append(sorted, x)
    ELSE Append(InsertSorted(SubSeq(sorted, 1, Len(sorted) - 1), x), sorted[Len(sorted)])

RECURSIVE SortStrategies(_)
SortStrategies(strategies) ==
    IF strategies = <<>> THEN <<>>
    ELSE InsertSorted(SortStrategies(SubSeq(strategies, 1, Len(strategies) - 1)),
                      strategies[Len(strategies)])

OpenAIDescriptor == [provider |-> "OPENAI", isAzure |-> FALSE, azureConfig |-> Undefined]

NewDetection ==
    [state |-> "ready", entry |-> "none", client |-> Null, env |-> Undefined,
     sorted |-> <<>>, idx |-> 0, evaluated |-> <<>>, warned |-> <<>>,
     detection |-> Null, result |-> Null, threw |-> FALSE]

\* the catch of the strategy loop re-throwing instead of continuing
Strategy_Catch_Rethrow(d, name) ==
    [d EXCEPT !.threw = TRUE, !.state = "detected"]

\* catch (error) { logger.warn(...) }: the loop goes on
Strategy_Catch(d, name) ==
    [d EXCEPT !.warned = Append(@, name), !.idx = @ + 1]

\* one iteration of for (const strategy of sortedStrategies)
TryStrategy(d) ==
    LET strategy == d.sorted[d.idx]
        outcome == Detect(strategy, d.client, d.env)
        e == [d EXCEPT !.evaluated = Append(@, strategy.name)]
    IN CASE outcome = "true" ->
              [e EXCEPT !.state = "detected",
                        !.detection = [provider |-> "AZURE_OPENAI",
                                       strategy |-> Str(strategy.name)]]
         [] outcome = "false" -> [e EXCEPT !.idx = @ + 1]
         [] OTHER -> Strategy_Catch(e, strategy.name)

\* gatherAzureConfigStrategy: endpoint from the client's base URL, else from
\* the environment; a strategy that throws is skipped
gatherAzureConfigStrategy(client, env) ==
    LET baseUrl == getBaseUrlString(client)
    IN [endpoint |-> IF ~baseUrl.threw /\ Truthy(baseUrl.value) THEN baseUrl.value ELSE env]

\* createProviderInfo after detectProviderStrategy has returned
createProviderInfo(d) ==
    IF d.detection.provider = "AZURE_OPENAI"
    THEN [provider |-> "AZURE_OPENAI", isAzure |-> TRUE,
          azureConfig |-> gatherAzureConfigStrategy(d.client, d.env)]
    ELSE [provider |-> d.detection.provider, isAzure |-> FALSE, azureConfig |-> Undefined]

\* the try/catch of detectProvider around createProviderInfo
detectProvider_Return(d) ==
    IF d.threw
    THEN [d EXCEPT !.state = "returned", !.threw = FALSE, !.result = OpenAIDescriptor,
                   !.warned = Append(@, "detectProvider")]
    ELSE [d EXCEPT !.state = "returned", !.result = createProviderInfo(d)]

\* detectProvider(client), up to the strategy loop
D_DetectProvider ==
    /\ inst.state = "ready"
    /\ \E client \in Clients, env \in Envs :
          LET d == [inst EXCEPT !.entry = "detectProvider", !.client = client, !.env = env]
          IN inst' = IF ~IsValidClient(client)
                     THEN [d EXCEPT !.state = "returned", !.result = OpenAIDescriptor,
                                    !.warned = <<"invalid client">>]
                     ELSE [d EXCEPT !.state = "strategies", !.idx = 1,
                                    !.sorted = SortStrategies(DETECTION_STRATEGIES)]
    /\ UNCHANGED <<strm, call, factory, trk>>

\* detectProviderStrategy(client) called on its own
D_DetectProviderStrategy ==
    /\ inst.state = "ready"
    /\ \E client \in Clients, env \in Envs :
          inst' = [inst EXCEPT !.entry = "detectProviderStrategy", !.client = client,
                               !.env = env, !.state = "strategies", !.idx = 1,
                               !.sorted = SortStrategies(DETECTION_STRATEGIES)]
    /\ UNCHANGED <<strm, call, factory, trk>>

D_TryStrategy ==
    /\ inst.state = "strategies"
    /\ inst.idx <= Len(inst.sorted)
    /\ inst' = TryStrategy(inst)
    /\ UNCHANGED <<strm, call, factory, trk>>

\* the loop ended without a match: return { provider: Provider.OPENAI }
D_NoMatch ==
    /\ inst.state = "strategies"
    /\ inst.idx > Len(inst.sorted)
    /\ inst' = [inst EXCEPT !.state = "detected",
                            !.detection = [provider |-> "OPENAI", strategy |-> Undefined]]
    /\ UNCHANGED <<strm, call, factory, trk>>

\* the entry point returns to its caller
D_Return ==
    /\ inst.state = "detected"
    /\ inst' = IF inst.entry = "detectProvider"
               THEN detectProvider_Return(inst)
               ELSE [inst EXCEPT !.state = "returned", !.result = inst.detection]
    /\ UNCHANGED <<strm, call, factory, trk>>

InitProvider ==
    /\ inst = NewDetection
    /\ strm = Idle /\ call = Idle /\ factory = Idle /\ trk = Idle

NextProvider ==
    \/ D_DetectProvider
    \/ D_DetectProviderStrategy
    \/ D_TryStrategy
    \/ D_NoMatch
    \/ D_Return

SpecProvider == InitProvider /\ [][NextProvider]_vars

(***************************************************************************)
(* Azure model name resolution: resolveAzureModelName and                  *)
(* clearModelNameCache over the module's two caches.  The history records  *)
(* every call, whether it was answered from modelNameCache and whether     *)
(* resolveModelNameHeuristic ran.                                          *)
(***************************************************************************)
MaxResolves == 3

DeploymentNames ==
    {"", "gpt-4o-2024-11-20", "o4-mini", "GPT4-Prod", "gpt-35-turbo-dev",
     "text-embedding-3-large", "my-deployment"}

\* RegExp.prototype.test of the heuristic's patterns on the lower-cased names
Matches(nameLower, pattern) ==
    pattern \in (CASE nameLower = "gpt-4o-2024-11-20" -> {"gpt-?4o", "2"}
                   [] nameLower = "o4-mini" -> {"o4", "mini"}
                   [] nameLower = "gpt4-prod" -> {"gpt-?4(?!o)"}
                   [] nameLower = "gpt-35-turbo-dev" ->
                        {"gpt-?3\\.?5", "35-turbo", "gpt-35", "turbo", "v", "3"}
                   [] nameLower = "text-embedding-3-large" ->
                        {"embed", "text-embedding-3-large", "3-large", "3"}
                   [] OTHER -> {})

knownModels ==
    {"gpt-4o", "gpt-4o-mini", "gpt-4", "gpt-4-turbo", "gpt-4-vision-preview",
     "gpt-3.5-turbo", "gpt-3.5-turbo-instruct", "text-embedding-3-large",
     "text-embedding-3-small", "text-embedding-ada-002", "dall-e-3", "dall-e-2",
     "whisper-1", "tts-1", "tts-1-hd"}

\* the value resolveModelNameHeuristic returns
resolveModelNameHeuristic(deploymentName) ==
    LET nameLower == ToLowerCase(deploymentName)
        T(p) == Matches(nameLower, p)
    IN CASE T("gpt-?4o") \/ T("o4") -> IF T("mini") THEN "gpt-4o-mini" ELSE "gpt-4o"
         [] T("gpt-?4(?!o)") ->
              IF T("turbo") THEN "gpt-4-turbo"
              ELSE IF T("vision") \/ T("v") THEN "gpt-4-vision-preview"
              ELSE "gpt-4"
         [] T("gpt-?3\\.?5") \/ T("35-turbo") \/ T("gpt-35") ->
              IF T("instruct") THEN "gpt-3.5-turbo-instruct" ELSE "gpt-3.5-turbo"
         [] T("embed") /\ T("text-embedding-3-large") -> "text-embedding-3-large"
         [] T("embed") /\ T("text-embedding-3-small") -> "text-embedding-3-small"
         [] T("embed") /\ (T("text-embedding-ada-002") \/ T("ada-002")) ->
              "text-embedding-ada-002"
         [] T("embed") /\ T("3-large") -> "text-embedding-3-large"
         [] T("embed") /\ T("3-small") -> "text-embedding-3-small"
         [] T("ada-002") -> "text-embedding-ada-002"
         [] T("dall-?e") /\ T("3") -> "dall-e-3"
         [] T("dall-?e") /\ T("2") -> "dall-e-2"
         [] T("whisper") -> "whisper-1"
         [] T("tts") -> IF T("hd") THEN "tts-1-hd" ELSE "tts-1"
         [] OTHER -> IF nameLower \in knownModels THEN nameLower ELSE deploymentName

\* whether the heuristic reaches its last return (no pattern, no known model)
NoHeuristicMatch(deploymentName) ==
    /\ resolveModelNameHeuristic(deploymentName) = deploymentName
    /\ ToLowerCase(deploymentName) \notin knownModels
    /\ \A p \in {"gpt-?4o", "o4", "gpt-?4(?!o)", "gpt-?3\\.?5", "35-turbo", "gpt-35",
                 "embed", "ada-002", "dall-?e", "whisper", "tts"} :
          ~Matches(ToLowerCase(deploymentName), p)

\* the cache write left out
CacheResult_Skip(cache, deploymentName, resolved) == cache

\* modelNameCache.set(deploymentName, resolved)
CacheResult(cache, deploymentName, resolved) ==
    [cache EXCEPT ![deploymentName] = Str(resolved)]

NewResolver ==
    [state |-> "resolver",
     modelNameCache |-> [n \in DeploymentNames |-> Undefined],
     failedResolutionCache |-> {},
     history |-> <<>>]

HistoryEntry(op, name, useCache, out, fromCache, ranHeuristic, warned) ==
    [op |-> op, name |-> name, useCache |-> useCache, out |-> out,
     fromCache |-> fromCache, ranHeuristic |-> ranHeuristic, warned |-> warned]

\* the warning issued on every unmatched resolution
ShouldWarn_Always(r, deploymentName) == TRUE

\* if (!failedResolutionCache.has(deploymentName)) logger.warn(...)
ShouldWarn(r, deploymentName) == deploymentName \notin r.failedResolutionCache

\* resolveAzureModelName(deploymentName, useCache) on the module state r
resolveAzureModelName(r, deploymentName, useCache) ==
    IF deploymentName = ""
    THEN [r EXCEPT !.history =
              Append(@, HistoryEntry("resolve", deploymentName, useCache,
                                     deploymentName, FALSE, FALSE, FALSE))]
    ELSE IF useCache /\ r.modelNameCache[deploymentName] # Undefined
    THEN [r EXCEPT !.history =
              Append(@, HistoryEntry("resolve", deploymentName, useCache,
                                     r.modelNameCache[deploymentName].v, TRUE, FALSE,
                                     FALSE))]
    ELSE LET resolved == resolveModelNameHeuristic(deploymentName)
             unmatched == NoHeuristicMatch(deploymentName)
         IN [r EXCEPT
               !.failedResolutionCache =
                   IF unmatched THEN @ \cup {deploymentName} ELSE @,
               !.modelNameCache =
                   IF useCache THEN CacheResult(@, deploymentName, resolved) ELSE @,
               !.history =
                   Append(@, HistoryEntry("resolve", deploymentName, useCache,
                                          resolved, FALSE, TRUE,
                                          unmatched /\ ShouldWarn(r, deploymentName)))]

\* clearModelNameCache()
clearModelNameCache(r) ==
    [r EXCEPT !.modelNameCache = [n \in DeploymentNames |-> Undefined],
              !.failedResolutionCache = {},
              !.history = Append(@, HistoryEntry("clear", "", FALSE, "", FALSE, FALSE,
                                                 FALSE))]

\* batchResolveModelNames(deploymentNames): resolveAzureModelName on each name
RECURSIVE batchResolveModelNames(_, _)
batchResolveModelNames(r, deploymentNames) ==
    IF deploymentNames = <<>> THEN r
    ELSE batchResolveModelNames(resolveAzureModelName(r, Head(deploymentNames), TRUE),
                                Tail(deploymentNames))

\* wouldTransformDeploymentName(deploymentName): a resolution without the cache
wouldTransformDeploymentName(r, deploymentName) ==
    resolveAzureModelName(r, deploymentName, FALSE)

BatchInputs == {<<a, b>> : a, b \in {"my-deployment", "o4-mini"}}

M_Resolve ==
    /\ factory.state = "resolver"
    /\ Len(factory.history) < MaxResolves
    /\ \E deploymentName \in DeploymentNames, useCache \in BOOLEAN :
          factory' = resolveAzureModelName(factory, deploymentName, useCache)
    /\ UNCHANGED <<strm, call, trk, inst>>

M_BatchResolve ==
    /\ factory.state = "resolver"
    /\ \E deploymentNames \in BatchInputs :
          /\ Len(factory.history) + Len(deploymentNames) <= MaxResolves
          /\ factory' = batchResolveModelNames(factory, deploymentNames)
    /\ UNCHANGED <<strm, call, trk, inst>>

M_WouldTransform ==
    /\ factory.state = "resolver"
    /\ Len(factory.history) < MaxResolves
    /\ \E deploymentName \in DeploymentNames :
          factory' = wouldTransformDeploymentName(factory, deploymentName)
    /\ UNCHANGED <<strm, call, trk, inst>>

M_Clear ==
    /\ factory.state = "resolver"
    /\ Len(factory.history) < MaxResolves
    /\ factory' = clearModelNameCache(factory)
    /\ UNCHANGED <<strm, call, trk, inst>>

InitResolver ==
    /\ factory = NewResolver
    /\ strm = Idle /\ call = Idle /\ trk = Idle /\ inst = Idle

NextResolver ==
    \/ M_Resolve
    \/ M_BatchResolve
    \/ M_WouldTransform
    \/ M_Clear

SpecResolver == InitResolver /\ [][NextResolver]_vars

(***************************************************************************)
(* Credential sanitization.  A text is a sequence of characters.  Every    *)
(* pattern of sanitizeCredentials but the JWT one has the shape            *)
(*   literal  separators+  quote?  body{min,max}  quote?                   *)
(* (parts may be missing) and is kept as a record; Replace is              *)
(* String.prototype.replace with a global regular expression: leftmost     *)
(* match, greedy quantifiers, backtracking over the separators.  The texts *)
(* of the model hold no "eyJ", so the JWT pattern never matches them.      *)
(***************************************************************************)
LowerCaseLetters == <<"a", "b", "c", "d", "e", "f", "g", "h", "i", "j", "k", "l", "m", "n", "o", "p", "q", "r", "s", "t", "u", "v", "w", "x", "y", "z">>

UpperCaseLetters == <<"A", "B", "C", "D", "E", "F", "G", "H", "I", "J", "K", "L", "M", "N", "O", "P", "Q", "R", "S", "T", "U", "V", "W", "X", "Y", "Z">>

SeqRange(s) == {s[i] : i \in 1..Len(s)}

\* the character lower-cased, as the i flag compares
LowerOf(c) ==
    IF \E i \in 1..Len(UpperCaseLetters) : UpperCaseLetters[i] = c
    THEN LowerCaseLetters[CHOOSE i \in 1..Len(UpperCaseLetters) : UpperCaseLetters[i] = c]
    ELSE c

Digits == {"0", "1", "2", "3", "4", "5", "6", "7", "8", "9"}

\* [a-zA-Z0-9]
AlphaNum == SeqRange(LowerCaseLetters) \cup SeqRange(UpperCaseLetters) \cup Digits

\* [A-Z0-9]
UpperNum == SeqRange(UpperCaseLetters) \cup Digits

\* [a-zA-Z0-9_-]
KeyChars == AlphaNum \cup {"_", "-"}

\* [a-zA-Z0-9_\-.]
DottedChars == KeyChars \cup {"."}

\* [a-zA-Z0-9_\-.+\/=]
ValueChars == DottedChars \cup {"+", "/", "="}

\* \s
Whitespace == {" "}

AllChars == ValueChars \cup Whitespace \cup {"\"", "'", ":", "*", "!"}

\* [^"'\s]
NotQuoteOrSpace == AllChars \ ({"\"", "'"} \cup Whitespace)

\* a pattern: alternatives of the literal, i flag, separator class (empty:
\* none), optional opening quote, body class with its bounds (max 0: no
\* upper bound), optional closing quote, replacement
Pattern(prefixes, ignoreCase, sep, openQuote, body, min, max, closeQuote, replacement) ==
    [prefixes |-> prefixes, ignoreCase |-> ignoreCase, sep |-> sep,
     openQuote |-> openQuote, body |-> body, min |-> min, max |-> max,
     closeQuote |-> closeQuote, replacement |-> replacement]

\* VENDOR[class]{min,}
TokenPattern(prefix, body, min, max, replacement) ==
    Pattern({prefix}, FALSE, {}, {}, body, min, max, {}, replacement)

\* the patterns of sanitizeCredentials in utils/prompt-extraction.ts, in order
patterns ==
    << TokenPattern(<<"p", "p", "l", "x", "-">>, KeyChars, 20, 0,
                 <<"p", "p", "l", "x", "-", "*", "*", "*", "R", "E", "D", "A", "C", "T", "E", "D", "*", "*", "*">>),
       TokenPattern(<<"s", "k", "-", "p", "r", "o", "j", "-">>, KeyChars, 48, 0,
                 <<"s", "k", "-", "p", "r", "o", "j", "-", "*", "*", "*", "R", "E", "D", "A", "C", "T", "E", "D", "*", "*", "*">>),
       TokenPattern(<<"s", "k", "-", "a", "n", "t", "-">>, KeyChars, 20, 0,
                 <<"s", "k", "-", "a", "n", "t", "-", "*", "*", "*", "R", "E", "D", "A", "C", "T", "E", "D", "*", "*", "*">>),
       TokenPattern(<<"s", "k", "-">>, KeyChars, 20, 0,
                 <<"s", "k", "-", "*", "*", "*", "R", "E", "D", "A", "C", "T", "E", "D", "*", "*", "*">>),
       Pattern({<<"b", "e", "a", "r", "e", "r">>}, TRUE, Whitespace, {},
            ValueChars, 1, 0, {},
            <<"B", "e", "a", "r", "e", "r", " ", "*", "*", "*", "R", "E", "D", "A", "C", "T", "E", "D", "*", "*", "*">>),
       Pattern({<<"a", "p", "i", "k", "e", "y">>, <<"a", "p", "i", "_", "k", "e", "y">>, <<"a", "p", "i", "-", "k", "e", "y">>}, TRUE, Whitespace \cup {"\"", ":", "="}, {},
            ValueChars, 20, 0, {},
            <<"a", "p", "i", "_", "k", "e", "y", ":", " ", "*", "*", "*", "R", "E", "D", "A", "C", "T", "E", "D", "*", "*", "*">>),
       Pattern({<<"t", "o", "k", "e", "n">>}, TRUE, Whitespace \cup {"\"", ":", "="}, {},
            DottedChars, 20, 0, {},
            <<"t", "o", "k", "e", "n", ":", " ", "*", "*", "*", "R", "E", "D", "A", "C", "T", "E", "D", "*", "*", "*">>),
       Pattern({<<"p", "a", "s", "s", "w", "o", "r", "d">>}, TRUE, Whitespace \cup {"\"", ":", "="}, {},
            NotQuoteOrSpace, 8, 0, {},
            <<"p", "a", "s", "s", "w", "o", "r", "d", ":", " ", "*", "*", "*", "R", "E", "D", "A", "C", "T", "E", "D", "*", "*", "*">>) >>

\* the patterns of the other sanitizeCredentials of the repository, in order
patterns_Extended ==
    << TokenPattern(<<"p", "p", "l", "x", "-">>, KeyChars, 20, 0,
                 <<"p", "p", "l", "x", "-", "*", "*", "*", "R", "E", "D", "A", "C", "T", "E", "D", "*", "*", "*">>),
       TokenPattern(<<"s", "k", "-", "p", "r", "o", "j", "-">>, KeyChars, 48, 0,
                 <<"s", "k", "-", "p", "r", "o", "j", "-", "*", "*", "*", "R", "E", "D", "A", "C", "T", "E", "D", "*", "*", "*">>),
       TokenPattern(<<"s", "k", "-", "a", "n", "t", "-">>, KeyChars, 20, 0,
                 <<"s", "k", "-", "a", "n", "t", "-", "*", "*", "*", "R", "E", "D", "A", "C", "T", "E", "D", "*", "*", "*">>),
       TokenPattern(<<"s", "k", "-">>, KeyChars, 20, 0,
                 <<"s", "k", "-", "*", "*", "*", "R", "E", "D", "A", "C", "T", "E", "D", "*", "*", "*">>),
       TokenPattern(<<"A", "K", "I", "A">>, UpperNum, 16, 16,
                 <<"A", "K", "I", "A", "*", "*", "*", "R", "E", "D", "A", "C", "T", "E", "D", "*", "*", "*">>),
       TokenPattern(<<"g", "h", "p", "_">>, AlphaNum, 36, 0,
                 <<"g", "h", "p", "_", "*", "*", "*", "R", "E", "D", "A", "C", "T", "E", "D", "*", "*", "*">>),
       TokenPattern(<<"g", "h", "s", "_">>, AlphaNum, 36, 0,
                 <<"g", "h", "s", "_", "*", "*", "*", "R", "E", "D", "A", "C", "T", "E", "D", "*", "*", "*">>),
       Pattern({<<"b", "e", "a", "r", "e", "r">>}, TRUE, Whitespace, {},
            ValueChars, 1, 0, {},
            <<"B", "e", "a", "r", "e", "r", " ", "*", "*", "*", "R", "E", "D", "A", "C", "T", "E", "D", "*", "*", "*">>),
       Pattern({<<"a", "p", "i", "k", "e", "y">>, <<"a", "p", "i", "_", "k", "e", "y">>, <<"a", "p", "i", "-", "k", "e", "y">>}, TRUE, Whitespace \cup {"\"", "'", ":", "="}, {},
            ValueChars, 20, 0, {},
            <<"a", "p", "i", "_", "k", "e", "y", ":", " ", "*", "*", "*", "R", "E", "D", "A", "C", "T", "E", "D", "*", "*", "*">>),
       Pattern({<<"t", "o", "k", "e", "n">>}, TRUE, Whitespace \cup {"\"", "'", ":", "="}, {},
            ValueChars, 20, 0, {},
            <<"t", "o", "k", "e", "n", ":", " ", "*", "*", "*", "R", "E", "D", "A", "C", "T", "E", "D", "*", "*", "*">>),
       Pattern({<<"p", "a", "s", "s", "w", "o", "r", "d">>}, TRUE, Whitespace \cup {"\"", "'", ":", "="}, {"\"", "'"},
            NotQuoteOrSpace, 8, 0, {"\"", "'"},
            <<"p", "a", "s", "s", "w", "o", "r", "d", ":", " ", "*", "*", "*", "R", "E", "D", "A", "C", "T", "E", "D", "*", "*", "*">>),
       Pattern({<<"s", "e", "c", "r", "e", "t">>}, TRUE, Whitespace \cup {"\"", "'", ":", "="}, {"\"", "'"},
            NotQuoteOrSpace, 8, 0, {"\"", "'"},
            <<"s", "e", "c", "r", "e", "t", ":", " ", "*", "*", "*", "R", "E", "D", "A", "C", "T", "E", "D", "*", "*", "*">>) >>

\* the number of consecutive characters of the class from position from on
RECURSIVE RunLength(_, _, _)
RunLength(text, from, class) ==
    IF from > Len(text) \/ text[from] \notin class THEN 0
    ELSE 1 + RunLength(text, from + 1, class)

\* the literal stands at position p
PrefixAt(text, p, prefix, ignoreCase) ==
    /\ p + Len(prefix) - 1 <= Len(text)
    /\ \A i \in 1..Len(prefix) :
          IF ignoreCase THEN LowerOf(text[p + i - 1]) = prefix[i]
          ELSE text[p + i - 1] = prefix[i]

\* the last position of the match whose body starts at start; 0: no match
BodyEnd(text, pat, start) ==
    LET run == RunLength(text, start, pat.body)
        n == IF pat.max > 0 /\ run > pat.max THEN pat.max ELSE run
        e == start + n - 1
    IN IF n < pat.min THEN 0
       ELSE IF e + 1 <= Len(text) /\ text[e + 1] \in pat.closeQuote THEN e + 1
       ELSE e

\* quote? body quote? from position pos on
AfterSeparators(text, pat, pos) ==
    LET quoted == IF pos <= Len(text) /\ text[pos] \in pat.openQuote
                  THEN BodyEnd(text, pat, pos + 1) ELSE 0
    IN IF quoted > 0 THEN quoted ELSE BodyEnd(text, pat, pos)

\* separators+ taking k characters, then fewer if the rest does not match
RECURSIVE SeparatorsMatch(_, _, _, _)
SeparatorsMatch(text, pat, q, k) ==
    IF k < 1 THEN 0
    ELSE LET e == AfterSeparators(text, pat, q + k)
         IN IF e > 0 THEN e ELSE SeparatorsMatch(text, pat, q, k - 1)

\* the last position of the pattern's match that starts at p; 0: no match
MatchEnd(text, pat, p) ==
    LET found == {prefix \in pat.prefixes : PrefixAt(text, p, prefix, pat.ignoreCase)}
    IN IF found = {} THEN 0
       ELSE LET q == p + Len(CHOOSE prefix \in found : TRUE)
            IN IF pat.sep = {} THEN AfterSeparators(text, pat, q)
               ELSE SeparatorsMatch(text, pat, q, RunLength(text, q, pat.sep))

\* sanitized.replace(pattern.regex, pattern.replacement) from position p on
RECURSIVE Replace(_, _, _)
Replace(text, pat, p) ==
    IF p > Len(text) THEN <<>>
    ELSE LET e == MatchEnd(text, pat, p)
         IN IF e > 0 THEN pat.replacement \o Replace(text, pat, e + 1)
            ELSE <<text[p]>> \o Replace(text, pat, p + 1)

\* for (const pattern of patterns) sanitized = sanitized.replace(...)
RECURSIVE ApplyPatterns(_, _, _)
ApplyPatterns(text, pats, i) ==
    IF i > Len(pats) THEN text
    ELSE ApplyPatterns(Replace(text, pats[i], 1), pats, i + 1)

sanitizeCredentials(pats, text) == ApplyPatterns(text, pats, 1)

\* pieces the sanitizer's input texts are made of
Piece_Password == <<"p", "a", "s", "s", "w", "o", "r", "d", ":", " ">>

Piece_Secret == <<"s", "e", "c", "r", "e", "t", ":", " ">>

Piece_Quoted == <<"\"", "h", "u", "n", "t", "e", "r", "2", "!", "\"">>

Piece_Plain == <<"h", "u", "n", "t", "e", "r", "2", "!">>

Piece_Tail == <<"x", "y", "z">>

Piece_Space == <<" ">>

Piece_VendorToken == <<"s", "k", "-", "a", "1", "a", "1", "a", "1", "a", "1", "a", "1", "a", "1", "a", "1", "a", "1", "a", "1", "a", "1">>

Piece_Bearer == <<"B", "e", "a", "r", "e", "r", " ", "a", "b", "c">>

Pieces ==
    {Piece_Password, Piece_Secret, Piece_Quoted, Piece_Plain, Piece_Tail, Piece_Space, Piece_VendorToken, Piece_Bearer}

MaxPieces == 3

\* the concatenations of one to n pieces
RECURSIVE TextsOf(_)
TextsOf(n) ==
    IF n = 0 THEN {<<>>}
    ELSE LET shorter == TextsOf(n - 1)
         IN shorter \cup {t \o piece : t \in shorter, piece \in Pieces}

Texts == TextsOf(MaxPieces) \ {<<>>}

PatternLists == {"prompt-extraction", "extended"}

PatternsOf(list) == IF list = "extended" THEN patterns_Extended ELSE patterns

NewSanitizer(list, text) ==
    [state |-> "sanitizer", list |-> list, input |-> text, passes |-> 0,
     once |-> <<>>, twice |-> <<>>]

\* sanitizeCredentials(t)
S_Sanitize ==
    /\ trk.state = "sanitizer" /\ trk.passes = 0
    /\ trk' = [trk EXCEPT !.passes = 1,
                          !.once = sanitizeCredentials(PatternsOf(trk.list), trk.input)]
    /\ UNCHANGED <<strm, call, factory, inst>>

\* sanitizeCredentials(sanitizeCredentials(t))
S_SanitizeAgain ==
    /\ trk.state = "sanitizer" /\ trk.passes = 1
    /\ trk' = [trk EXCEPT !.passes = 2,
                          !.twice = sanitizeCredentials(PatternsOf(trk.list), trk.once)]
    /\ UNCHANGED <<strm, call, factory, inst>>

InitSanitize ==
    /\ trk \in {NewSanitizer(list, text) : list \in PatternLists, text \in Texts}
    /\ strm = Idle /\ call = Idle /\ factory = Idle /\ inst = Idle

NextSanitize ==
    \/ S_Sanitize
    \/ S_SanitizeAgain

SpecSanitize == InitSanitize /\ [][NextSanitize]_vars


(***************************************************************************)
(* Capture of response content by the interfaces of the middleware client: *)
(* StreamingWrapper, CompletionsInterface.create, ResponsesInterface.create *)
(* and ResponsesInterface.createStreaming, up to the responseContent they  *)
(* hand to trackUsageAsync.                                                *)
(***************************************************************************)
MaxDeltas == 2

DEFAULT_MAX_PROMPT_SIZE == 50000

CAPTURE_PROMPTS_DEFAULT == FALSE

\* parseInt(envValue, 10) on the values of the model; -1 stands for NaN
ParseInt(envValue) == IF envValue = "10" THEN 10 ELSE -1

\* getMaxPromptSize(): config.maxPromptSize, REVENIUM_MAX_PROMPT_SIZE, default
getMaxPromptSize(config, env) ==
    IF Truthy(config.maxPromptSize) /\ config.maxPromptSize.v > 0
    THEN config.maxPromptSize.v
    ELSE IF Truthy(env.REVENIUM_MAX_PROMPT_SIZE)
            /\ ParseInt(env.REVENIUM_MAX_PROMPT_SIZE.v) > 0
    THEN ParseInt(env.REVENIUM_MAX_PROMPT_SIZE.v)
    ELSE DEFAULT_MAX_PROMPT_SIZE

\* shouldCapturePrompts(metadata): metadata, then config, then
\* REVENIUM_CAPTURE_PROMPTS lower-cased, then the default
shouldCapturePrompts(metadata, config, env) ==
    IF metadata.capturePrompts # Undefined THEN metadata.capturePrompts.v
    ELSE IF config.capturePrompts # Undefined THEN config.capturePrompts.v
    ELSE IF env.REVENIUM_CAPTURE_PROMPTS # Undefined
    THEN [i \in 1..Len(env.REVENIUM_CAPTURE_PROMPTS.v) |->
             LowerOf(env.REVENIUM_CAPTURE_PROMPTS.v[i])] = <<"t", "r", "u", "e">>
    ELSE CAPTURE_PROMPTS_DEFAULT

CaptureSettings ==
    [metadata : [capturePrompts : {Undefined, Bool(TRUE), Bool(FALSE)}],
     config : [capturePrompts : {Undefined, Bool(TRUE)},
               maxPromptSize : {Undefined, Num(4), Num(30)}],
     env : [REVENIUM_CAPTURE_PROMPTS : {Undefined, Str(<<"T", "R", "U", "E">>)},
            REVENIUM_MAX_PROMPT_SIZE : {Undefined, Str("10")}]]

Text_Hi == <<"h", "i">>

\* what a chunk or a response carries as text
ContentTexts == {Text_Hi, Piece_VendorToken}

DeltaChunk(text) == [type |-> "delta", delta |-> text]

CompletedChunk == [type |-> "completed", delta |-> <<>>]

\* chunks: a text delta (possibly empty) or the closing chunk with the usage
CaptureChunks == {DeltaChunk(text) : text \in ContentTexts \cup {<<>>}} \cup {CompletedChunk}

StreamingEntries == {"StreamingWrapper", "ResponsesInterface.createStreaming"}

NonStreamingEntries == {"CompletionsInterface.create", "ResponsesInterface.create"}

NewCapture(settings) ==
    [state |-> "capture", pc |-> "ready", entry |-> "none", settings |-> settings,
     src |-> <<>>, pos |-> 0, accumulated |-> <<>>, finalResponse |-> FALSE,
     handed |-> Null]

\* StreamingWrapper: if (delta.content && shouldCapturePrompts(this.metadata))
\* accumulatedContent += content.slice(0, remaining)
Accumulate(c, chunk) ==
    IF chunk.delta # <<>>
       /\ shouldCapturePrompts(c.settings.metadata, c.settings.config, c.settings.env)
    THEN LET maxSize == getMaxPromptSize(c.settings.config, c.settings.env)
             remaining == maxSize - Len(c.accumulated)
         IN IF remaining > 0
            THEN [c EXCEPT !.accumulated =
                     @ \o SubSeq(chunk.delta, 1,
                                 IF remaining < Len(chunk.delta) THEN remaining
                                 ELSE Len(chunk.delta))]
            ELSE c
    ELSE c

\* ResponsesInterface.createStreaming: fullContent += chunk.delta;
\* finalResponse = chunk.response
AccumulateResponses(c, chunk) ==
    IF chunk.type = "delta"
    THEN IF chunk.delta # <<>> THEN [c EXCEPT !.accumulated = @ \o chunk.delta] ELSE c
    ELSE [c EXCEPT !.finalResponse = TRUE]

\* sanitizeCredentials as the interfaces import it
Sanitized(text) == sanitizeCredentials(patterns, text)

\* the tracking data handed to trackUsageAsync when the stream has ended
HandOverStream(c) ==
    IF c.entry = "StreamingWrapper"
    THEN [c EXCEPT !.handed =
             [responseContent |-> IF c.accumulated # <<>>
                                  THEN Str(Sanitized(c.accumulated)) ELSE Undefined]]
    ELSE IF c.finalResponse
    THEN [c EXCEPT !.handed = [responseContent |-> Str(c.accumulated)]]
    ELSE c

\* the tracking data handed to trackUsageAsync by the create methods
HandOverResponse(c, content) ==
    IF c.entry = "CompletionsInterface.create"
    THEN [c EXCEPT !.handed =
             [responseContent |->
                 IF content.t = "string" /\ content.v # <<>>
                    /\ shouldCapturePrompts(c.settings.metadata, c.settings.config,
                                            c.settings.env)
                 THEN Str(Sanitized(content.v)) ELSE Undefined]]
    ELSE [c EXCEPT !.handed =
             [responseContent |-> IF content.t = "string" /\ content.v # <<>>
                                  THEN content ELSE Undefined]]

\* a create call returns its stream, or awaits the original call
C_Call ==
    /\ strm.state = "capture" /\ strm.pc = "ready"
    /\ \/ \E entry \in StreamingEntries, src \in SeqsUpTo(CaptureChunks, MaxDeltas) :
            strm' = [strm EXCEPT !.entry = entry, !.src = src, !.pc = "streaming"]
       \/ \E entry \in NonStreamingEntries :
            strm' = [strm EXCEPT !.entry = entry, !.pc = "awaiting"]
    /\ UNCHANGED <<call, factory, trk, inst>>

\* one iteration of for await (const chunk of stream)
C_Chunk ==
    /\ strm.state = "capture" /\ strm.pc = "streaming"
    /\ strm.pos < Len(strm.src)
    /\ LET chunk == strm.src[strm.pos + 1]
           c == [strm EXCEPT !.pos = @ + 1]
       IN strm' = IF strm.entry = "StreamingWrapper" THEN Accumulate(c, chunk)
                  ELSE AccumulateResponses(c, chunk)
    /\ UNCHANGED <<call, factory, trk, inst>>

\* the stream ends and the usage is tracked
C_End ==
    /\ strm.state = "capture" /\ strm.pc = "streaming"
    /\ strm.pos = Len(strm.src)
    /\ strm' = [HandOverStream(strm) EXCEPT !.pc = "done"]
    /\ UNCHANGED <<call, factory, trk, inst>>

\* the original call resolves with a response that reports usage
C_Resolve ==
    /\ strm.state = "capture" /\ strm.pc = "awaiting"
    /\ \E content \in {Str(text) : text \in ContentTexts \cup {<<>>}} \cup {Null} :
          strm' = [HandOverResponse(strm, content) EXCEPT !.pc = "done"]
    /\ UNCHANGED <<call, factory, trk, inst>>

InitCapture ==
    /\ strm \in {NewCapture(settings) : settings \in CaptureSettings}
    /\ call = Idle /\ factory = Idle /\ trk = Idle /\ inst = Idle

NextCapture ==
    \/ C_Call
    \/ C_Chunk
    \/ C_End
    \/ C_Resolve

SpecCapture == InitCapture /\ [][NextCapture]_vars

(***************************************************************************)
(* fetchCompletionMetrics (summary-printer.ts): the retry loop around the  *)
(* metrics lookup.  A step is the settling of one fetch or the elapsing of *)
(* one delay; events records the requests and delays in their order.       *)
(***************************************************************************)
MaxRetriesLimit == 3

DefaultMaxRetries == 3

\* getConfig(): absent, without a team id, or complete
FetchConfigs == {Null, [t |-> "object", teamId |-> Undefined], [t |-> "object", teamId |-> Str("team")]}

\* how one fetch ends: a metric, an empty or a missing list, a body that is
\* not JSON, a non-OK status, or a thrown error
FetchOutcomes ==
    {"metric", "emptyList", "missingList", "invalidJson", "status401", "status403",
     "status500", "throws"}

NewFetch ==
    [state |-> "fetch", pc |-> "ready", config |-> Null, maxRetries |-> 0,
     attempt |-> 0, events |-> <<>>, outcomes |-> <<>>, result |-> Null]

\* a loop condition letting one more attempt through
LoopCondition_Inclusive(attempt, maxRetries) == attempt <= maxRetries

\* for (let attempt = 0; attempt < maxRetries; attempt++)
LoopCondition(attempt, maxRetries) == attempt < maxRetries

\* the top of the loop: issue the request of this attempt, or leave the loop
\* and return null
LoopTop(f) ==
    IF LoopCondition(f.attempt, f.maxRetries)
    THEN [f EXCEPT !.pc = "fetching", !.events = Append(@, "request")]
    ELSE [f EXCEPT !.pc = "returned", !.result = Null]

\* if (attempt < maxRetries - 1) await delayWithUnref(retryDelay)
DelayOrNot(f, otherwise) ==
    IF f.attempt < f.maxRetries - 1
    THEN [f EXCEPT !.pc = "delaying", !.events = Append(@, "delay")]
    ELSE otherwise

\* the body of the loop once the fetch of this attempt has settled
AfterFetch(f, outcome) ==
    LET g == [f EXCEPT !.outcomes = Append(@, outcome)]
    IN CASE outcome \in {"status401", "status403", "status500"} ->
              \* if (!response.ok): delay and continue, or return null
              DelayOrNot(g, [g EXCEPT !.pc = "returned", !.result = Null])
         [] outcome = "metric" ->
              [g EXCEPT !.pc = "returned", !.result = Str("completions[0]")]
         [] OTHER ->
              \* empty or missing list; catch (error) for a throw or a bad body
              DelayOrNot(g, LoopTop([g EXCEPT !.attempt = @ + 1]))

\* fetchCompletionMetrics(transactionId, maxRetries, retryDelay) up to its
\* first await
fetchCompletionMetrics(f, config, maxRetries) ==
    LET g == [f EXCEPT !.config = config, !.maxRetries = maxRetries]
    IN IF config = Null \/ ~Truthy(config.teamId)
       THEN [g EXCEPT !.pc = "returned", !.result = Null]
       ELSE LoopTop(g)

F_Call ==
    /\ call.state = "fetch" /\ call.pc = "ready"
    /\ \E config \in FetchConfigs, maxRetries \in 0..MaxRetriesLimit :
          call' = fetchCompletionMetrics(call, config, maxRetries)
    /\ UNCHANGED <<strm, factory, trk, inst>>

\* the fetch of the current attempt settles
F_FetchSettles ==
    /\ call.state = "fetch" /\ call.pc = "fetching"
    /\ \E outcome \in FetchOutcomes : call' = AfterFetch(call, outcome)
    /\ UNCHANGED <<strm, factory, trk, inst>>

\* the retry delay elapses and the loop goes on to the next attempt
F_DelayElapses ==
    /\ call.state = "fetch" /\ call.pc = "delaying"
    /\ call' = LoopTop([call EXCEPT !.attempt = @ + 1])
    /\ UNCHANGED <<strm, factory, trk, inst>>

InitFetch ==
    /\ call = NewFetch
    /\ strm = Idle /\ factory = Idle /\ trk = Idle /\ inst = Idle

NextFetch ==
    \/ F_Call
    \/ F_FetchSettles
    \/ F_DelayElapses

SpecFetch == InitFetch /\ [][NextFetch]_vars

\* every fetch settles (the runtime's request timeouts) and every timer fires
SpecFetchFair ==
    /\ SpecFetch
    /\ WF_vars(F_FetchSettles)
    /\ WF_vars(F_DelayElapses)

(***************************************************************************)
(* printUsageSummary (summary-printer.ts) and the payloads it is called    *)
(* with (payload-builder.ts).  trk holds one printUsageSummary call and    *)
(* what it has printed; call holds the metrics lookup the call may start.  *)
(***************************************************************************)
ImageSubtypes == {"generation", "edit", "variation"}
AudioSubtypes == {"transcription", "translation", "speech_synthesis"}

\* a variant that reports the token counts of an image as 0
buildImagePayload_ZeroCounts(operationSubtype, request) ==
    [operationType |-> "IMAGE", model |-> OrElse(request.model, Str("dall-e-2")),
     transactionId |-> Str("image-" \o operationSubtype \o "-uuid"),
     inputTokenCount |-> Num(0), outputTokenCount |-> Num(0),
     totalTokenCount |-> Num(0),
     reasoningTokenCount |-> Undefined,
     cacheCreationTokenCount |-> Undefined,
     cacheReadTokenCount |-> Undefined,
     isStreamed |-> FALSE]

buildImagePayload(operationSubtype, request) ==
    [operationType |-> "IMAGE", model |-> OrElse(request.model, Str("dall-e-2")),
     transactionId |-> Str("image-" \o operationSubtype \o "-uuid"),
     inputTokenCount |-> Null, outputTokenCount |-> Null,
     totalTokenCount |-> Null,
     reasoningTokenCount |-> Undefined,
     cacheCreationTokenCount |-> Undefined,
     cacheReadTokenCount |-> Undefined,
     isStreamed |-> FALSE]

buildAudioPayload(operationSubtype, request) ==
    [operationType |-> "AUDIO", model |-> OrElse(request.model, Str("whisper-1")),
     transactionId |-> Str("audio-" \o operationSubtype \o "-uuid"),
     inputTokenCount |-> Null, outputTokenCount |-> Null,
     totalTokenCount |-> Null,
     reasoningTokenCount |-> Undefined,
     cacheCreationTokenCount |-> Undefined,
     cacheReadTokenCount |-> Undefined,
     isStreamed |-> FALSE]

\* what a provider may report as a reasoning or cached token count
ReportedCounts == {Undefined, Null, Num(0), Num(7)}

\* the operation a payload is built for: a chat tracking call with the
\* counts the response reported, an embeddings call, an image or audio call
SummarySources ==
    {[kind |-> "chat", subtype |-> "none", model |-> Str("gpt"),
      reasoning |-> rt, cached |-> cached] : rt \in ReportedCounts, cached \in ReportedCounts}
    \cup {[kind |-> "embed", subtype |-> "none", model |-> Str("emb"),
           reasoning |-> Undefined, cached |-> Undefined]}
    \cup {[kind |-> "image", subtype |-> sub, model |-> m,
           reasoning |-> Undefined, cached |-> Undefined] :
            sub \in ImageSubtypes, m \in {Undefined, Str("dall-e-3")}}
    \cup {[kind |-> "audio", subtype |-> sub, model |-> m,
           reasoning |-> Undefined, cached |-> Undefined] :
            sub \in AudioSubtypes, m \in {Undefined, Str("tts-1")}}

\* the tracking data a handler passes to trackUsageAsync for a chat response
\* that reported these counts (reasoningTokens: usage.reasoning_tokens,
\* cachedTokens: usage.cached_tokens)
TrackingDataOf(source) ==
    TrackingData(Str("id1"), source.model, Num(3), Num(2), Num(5),
                 source.reasoning, source.cached, Str("stop"), FALSE, FALSE)

PayloadFor(source) ==
    CASE source.kind = "chat" -> PayloadOf(TrackingDataOf(source))
      [] source.kind = "embed" ->
            buildPayload("EMBED",
                         Response(Undefined, source.model, EmbeddingUsage(4),
                                  Undefined, Undefined, Arr, Str("list")),
                         [model |-> source.model, stream |-> FALSE])
      [] source.kind = "image" ->
            buildImagePayload(source.subtype, [model |-> source.model])
      [] OTHER -> buildAudioPayload(source.subtype, [model |-> source.model])

\* getConfig(): absent, or an object with its printSummary and teamId
SummaryConfigs ==
    {Null} \cup
    {[t |-> "object", printSummary |-> p, teamId |-> team] :
        p \in {Undefined, Bool(FALSE), Bool(TRUE), Str("human"), Str("json"), Str("yes")},
        team \in {Undefined, Str("team")}}

isSummaryFormat(value) == value = Str("human") \/ value = Str("json")

getSummaryFormat(value) ==
    IF ~Truthy(value) THEN Null
    ELSE IF value = Bool(TRUE) THEN Str("human")
    ELSE IF isSummaryFormat(value) THEN value
    ELSE Null

\* JSON.stringify of a value: null is written, a number in digits, a string
\* in quotes
JSONText(v) ==
    CASE v.t = "null" -> "null"
      [] v.t = "number" -> ToString(v.v)
      [] v.t = "boolean" -> IF v.v THEN "true" ELSE "false"
      [] OTHER -> "\"" \o v.v \o "\""

\* JSON.stringify of an object: a property whose value is undefined is left out
JSON_stringify(obj) ==
    [k \in {key \in DOMAIN obj : obj[key].t # "undefined"} |-> JSONText(obj[k])]

\* (n).toLocaleString() for the counts of the model (below 1000)
toLocaleString(n) == ToString(n.v)

\* typeof metrics?.totalCost === "number" ? metrics.totalCost : null
CostOf(metrics) ==
    IF OptionalField(metrics, "totalCost").t = "number" THEN metrics.totalCost
    ELSE Null

formatAndPrintJsonSummary(payload, metrics, config) ==
    LET cost == CostOf(metrics)
        summary ==
            [model |-> payload.model,
             inputTokenCount |-> payload.inputTokenCount,
             outputTokenCount |-> payload.outputTokenCount,
             totalTokenCount |-> payload.totalTokenCount,
             cost |-> cost,
             costStatus |->
                 IF cost = Null
                 THEN IF Truthy(OptionalField(config, "teamId"))
                      THEN Str("pending") ELSE Str("unavailable")
                 ELSE Undefined]
    IN [format |-> "json", transactionId |-> payload.transactionId,
        text |-> JSON_stringify(summary)]

formatAndPrintHumanSummary(payload, metrics, config) ==
    [format |-> "human", transactionId |-> payload.transactionId,
     text |-> [model |-> payload.model.v,
               inputTokens |-> toLocaleString(Coalesce(payload.inputTokenCount, Num(0))),
               outputTokens |-> toLocaleString(Coalesce(payload.outputTokenCount, Num(0))),
               totalTokens |-> toLocaleString(Coalesce(payload.totalTokenCount, Num(0))),
               cost |-> IF CostOf(metrics) # Null THEN ToString(CostOf(metrics).v)
                        ELSE IF ~Truthy(OptionalField(config, "teamId"))
                        THEN "Set REVENIUM_TEAM_ID in .env to see pricing"
                        ELSE "(pending aggregation)"]]

formatAndPrintSummary(payload, metrics, config, format) ==
    IF format = Str("json") THEN formatAndPrintJsonSummary(payload, metrics, config)
    ELSE formatAndPrintHumanSummary(payload, metrics, config)

\* try { formatAndPrintSummary(...) } catch { debug }: console.log is taken
\* not to throw
safeFormatAndPrintSummary(s, metrics) ==
    [s EXCEPT !.printed =
        Append(@, formatAndPrintSummary(s.payload, metrics, s.config, s.format))]

NewSummary ==
    [state |-> "summary", pc |-> "ready", source |-> Null, payload |-> Null,
     config |-> Null, format |-> Null, printed |-> <<>>]

\* .then((metrics) => safeFormatAndPrintSummary(payload, metrics, format))
Lookup_Then(s, metrics) ==
    safeFormatAndPrintSummary([s EXCEPT !.pc = "returned"], metrics)

\* a .catch handler that logs and prints nothing
Lookup_Catch_Silent(s) == [s EXCEPT !.pc = "returned"]

\* .catch((error) => { debug; safeFormatAndPrintSummary(payload, null, format) })
Lookup_Catch(s) ==
    safeFormatAndPrintSummary([s EXCEPT !.pc = "returned"], Null)

\* printUsageSummary(payload), up to its return: nothing without a format,
\* the start of the metrics lookup with a team id and a transaction id, the
\* summary at once otherwise.  lookup tells whether fetchCompletionMetrics
\* raises before its loop (the promise it returned is then rejected).
U_Print ==
    /\ trk.state = "summary" /\ trk.pc = "ready"
    /\ \E source \in SummarySources, config \in SummaryConfigs, lookup \in {"runs", "throws"} :
          LET payload == PayloadFor(source)
              format == getSummaryFormat(OptionalField(config, "printSummary"))
              s == [trk EXCEPT !.source = source, !.payload = payload,
                               !.config = config, !.format = format]
          IN IF ~Truthy(format)
             THEN /\ trk' = [s EXCEPT !.pc = "returned"]
                  /\ call' = call
             ELSE IF Truthy(OptionalField(config, "teamId")) /\ Truthy(payload.transactionId)
             THEN /\ trk' = [s EXCEPT !.pc = "lookup"]
                  /\ call' = IF lookup = "throws"
                             THEN [call EXCEPT !.config = config, !.pc = "rejected"]
                             ELSE fetchCompletionMetrics(call, config, DefaultMaxRetries)
             ELSE /\ trk' = safeFormatAndPrintSummary([s EXCEPT !.pc = "returned"], Null)
                  /\ call' = call
    /\ UNCHANGED <<strm, factory, inst>>

\* the promise of fetchCompletionMetrics has settled and its handler runs:
\* the then-handler with the metric or null, the catch-handler on a rejection
U_LookupSettles ==
    /\ trk.state = "summary" /\ trk.pc = "lookup"
    /\ call.pc \in {"returned", "rejected"}
    /\ \E totalCost \in {Undefined, Num(2)} :
          trk' = IF call.pc = "returned"
                 THEN Lookup_Then(trk, IF call.result = Null THEN Null
                                       ELSE [t |-> "object", totalCost |-> totalCost])
                 ELSE Lookup_Catch(trk)
    /\ UNCHANGED <<strm, call, factory, inst>>

InitSummary ==
    /\ trk = NewSummary
    /\ call = NewFetch
    /\ strm = Idle /\ factory = Idle /\ inst = Idle

NextSummary ==
    \/ U_Print
    \/ F_FetchSettles
    \/ F_DelayElapses
    \/ U_LookupSettles

SpecSummary == InitSummary /\ [][NextSummary]_vars

\* every fetch settles, every timer fires and every settled promise's handler
\* runs
SpecSummaryFair ==
    /\ SpecSummary
    /\ WF_vars(F_FetchSettles)
    /\ WF_vars(F_DelayElapses)
    /\ WF_vars(U_LookupSettles)

(***************************************************************************)
(* getTraceType (trace-fields.ts).  inst holds the value of                *)
(* REVENIUM_TRACE_TYPE, a text of one-character strings or undefined, and  *)
(* what a getTraceType call returned for it.                               *)
(***************************************************************************)
\* longest tail of arbitrary characters after the run of letters
MaxTail == 2

\* traceType.length > 128, substring(0, 128)
MaxTraceTypeLength == 128

\* [a-zA-Z0-9_-]
TraceTypeChars == AlphaNum \cup {"_", "-"}

\* the characters of the tails: of each class of the pattern, and outside it
TailChars == {"a", "Z", "7", "-", "_", " ", "@"}

\* "a".repeat(n)
Repeat_a(n) == [i \in 1..n |-> "a"]

\* the values of the variable: unset, or a run of n letters and a tail
TraceTypeValues ==
    {Undefined} \cup
    {Str(Repeat_a(n) \o tail) :
        n \in {0, 1, MaxTraceTypeLength - MaxTail, MaxTraceTypeLength - 1,
               MaxTraceTypeLength, MaxTraceTypeLength + 1},
        tail \in SeqsUpTo(TailChars, MaxTail)}

\* a pattern that also lets a space through
TraceTypePattern_WithSpace(text) ==
    /\ Len(text) >= 1
    /\ \A i \in 1..Len(text) : text[i] \in TraceTypeChars \cup {" "}

\* /^[a-zA-Z0-9_-]+$/.test(traceType)
TraceTypePattern(text) ==
    /\ Len(text) >= 1
    /\ \A i \in 1..Len(text) : text[i] \in TraceTypeChars

\* traceType.substring(0, n)
Substring0(text, n) == SubSeq(text, 1, IF n < Len(text) THEN n ELSE Len(text))

getTraceType(traceType) ==
    IF traceType.t = "undefined" \/ traceType.v = <<>> THEN Null
    ELSE IF ~TraceTypePattern(traceType.v) THEN Null
    ELSE IF Len(traceType.v) > MaxTraceTypeLength
    THEN Str(Substring0(traceType.v, MaxTraceTypeLength))
    ELSE traceType

NewTraceEnv(value) ==
    [state |-> "trace", REVENIUM_TRACE_TYPE |-> value, called |-> FALSE,
     result |-> Undefined]

\* getTraceType()
G_GetTraceType ==
    /\ inst.state = "trace" /\ ~inst.called
    /\ inst' = [inst EXCEPT !.called = TRUE,
                            !.result = getTraceType(inst.REVENIUM_TRACE_TYPE)]
    /\ UNCHANGED <<strm, call, factory, trk>>

\* process.env.REVENIUM_TRACE_TYPE is set (or deleted) between two calls
G_SetEnv ==
    /\ inst.state = "trace" /\ inst.called
    /\ \E value \in TraceTypeValues : inst' = NewTraceEnv(value)
    /\ UNCHANGED <<strm, call, factory, trk>>

InitTraceType ==
    /\ inst = NewTraceEnv(Undefined)
    /\ strm = Idle /\ call = Idle /\ factory = Idle /\ trk = Idle

NextTraceType ==
    \/ G_GetTraceType
    \/ G_SetEnv

SpecTraceType == InitTraceType /\ [][NextTraceType]_vars

(***************************************************************************)
(* getRegion and resetRegionCache (trace-fields.ts).  factory holds the    *)
(* module state (cachedRegion, regionCached), the environment, the calls   *)
(* whose metadata request is in flight, and a log of what happened.  A     *)
(* call that finds the cache or the environment set returns without an     *)
(* await; the others return when their metadata request settles.           *)
(***************************************************************************)
\* number of getRegion calls in a behaviour
MaxRegionCalls == 3

RegionVariables == <<"AWS_REGION", "AZURE_REGION", "GCP_REGION", "REVENIUM_REGION">>

RegionEnvs ==
    [AWS_REGION : {Undefined, Str(<<>>), Str(<<" ", "u", "s", " ">>)},
     AZURE_REGION : {Undefined, Str(<<"a", "z">>)},
     GCP_REGION : {Undefined, Str(<<"g">>)},
     REVENIUM_REGION : {Undefined, Str(<<"r", " ">>)}]

\* how the request to the metadata service ends: a text, a body that is not
\* a string (data.trim is then not a function), or a failure or timeout
MetadataOutcomes ==
    {[ok |-> TRUE, data |-> Str(<<"e", "u", "\n">>)],
     [ok |-> TRUE, data |-> [t |-> "object"]],
     [ok |-> FALSE, data |-> Undefined]}

TrimChars == {" ", "\n"}

RECURSIVE TrimStart(_)
TrimStart(text) ==
    IF text # <<>> /\ Head(text) \in TrimChars THEN TrimStart(Tail(text)) ELSE text

RECURSIVE TrimEnd(_)
TrimEnd(text) ==
    IF text # <<>> /\ text[Len(text)] \in TrimChars
    THEN TrimEnd(SubSeq(text, 1, Len(text) - 1)) ELSE text

\* s.trim()
Trim(s) == Str(TrimEnd(TrimStart(s.v)))

\* process.env.AWS_REGION || process.env.AZURE_REGION || process.env.GCP_REGION
\* || process.env.REVENIUM_REGION
EnvRegion(env) ==
    OrElse(env.AWS_REGION, OrElse(env.AZURE_REGION,
           OrElse(env.GCP_REGION, env.REVENIUM_REGION)))

NewRegion(env) ==
    [state |-> "region", env |-> env, cachedRegion |-> Null, regionCached |-> FALSE,
     started |-> 0, pending |-> {}, envChanged |-> FALSE, log |-> <<>>]

Started(id) == [ev |-> "start", id |-> id, result |-> Undefined, source |-> "none"]
Ended(id, result, source) == [ev |-> "end", id |-> id, result |-> result, source |-> source]
ResetEvent == [ev |-> "reset", id |-> 0, result |-> Undefined, source |-> "none"]

\* a cache test that is never satisfied
RegionCached_Never(r) == FALSE

\* if (regionCached)
RegionCached(r) == r.regionCached

\* getRegion() up to its return or its await
getRegion_Call(r) ==
    LET id == r.started + 1
        s == [r EXCEPT !.started = id, !.log = Append(@, Started(id))]
        envRegion == EnvRegion(r.env)
    IN IF RegionCached(r)
       THEN [s EXCEPT !.log = Append(@, Ended(id, r.cachedRegion, "cache"))]
       ELSE IF Truthy(envRegion)
       THEN [s EXCEPT !.cachedRegion = Trim(envRegion), !.regionCached = TRUE,
                      !.log = Append(@, Ended(id, Trim(envRegion), "environment"))]
       ELSE [s EXCEPT !.pending = @ \cup {id}]

\* getRegion() after await axios.get(...): the try block, or the catch block
\* when the request failed or response.data.trim() raised
getRegion_AfterAwait(r, id, outcome) ==
    LET result == IF outcome.ok /\ outcome.data.t = "string"
                  THEN Trim(outcome.data) ELSE Null
    IN [r EXCEPT !.cachedRegion = result, !.regionCached = TRUE,
                 !.pending = @ \ {id},
                 !.log = Append(@, Ended(id, result, "network"))]

resetRegionCache(r) ==
    [r EXCEPT !.cachedRegion = Null, !.regionCached = FALSE,
              !.log = Append(@, ResetEvent)]

Rg_Call ==
    /\ factory.state = "region" /\ factory.started < MaxRegionCalls
    /\ factory' = getRegion_Call(factory)
    /\ UNCHANGED <<strm, call, trk, inst>>

Rg_MetadataSettles ==
    /\ factory.state = "region"
    /\ \E id \in factory.pending, outcome \in MetadataOutcomes :
          factory' = getRegion_AfterAwait(factory, id, outcome)
    /\ UNCHANGED <<strm, call, trk, inst>>

\* resetRegionCache(), once in a behaviour
Rg_Reset ==
    /\ factory.state = "region"
    /\ ~\E i \in 1..Len(factory.log) : factory.log[i].ev = "reset"
    /\ factory' = resetRegionCache(factory)
    /\ UNCHANGED <<strm, call, trk, inst>>

\* the process changes its environment, once in a behaviour
Rg_SetEnv ==
    /\ factory.state = "region" /\ ~factory.envChanged
    /\ \E env \in RegionEnvs :
          /\ env # factory.env
          /\ factory' = [factory EXCEPT !.env = env, !.envChanged = TRUE]
    /\ UNCHANGED <<strm, call, trk, inst>>

InitRegion ==
    /\ factory \in {NewRegion(env) : env \in RegionEnvs}
    /\ strm = Idle /\ call = Idle /\ trk = Idle /\ inst = Idle

NextRegion ==
    \/ Rg_Call
    \/ Rg_MetadataSettles
    \/ Rg_Reset
    \/ Rg_SetEnv

SpecRegion == InitRegion /\ [][NextRegion]_vars

(***************************************************************************)
(* The order of a request's steps (request-handler.ts, stream-wrapper.ts,  *)
(* usage-tracker.ts).  trk holds the requests in progress side by side:    *)
(* each has the events it went through, in their order, and trk also keeps *)
(* the order in which requests were invoked and deliveries completed.      *)
(***************************************************************************)
\* number of requests in progress side by side
NumRequests == 2

RequestKinds == {"nonStreaming", "streaming"}

NewRequest ==
    [kind |-> "none", pc |-> "idle", pulls |-> 0, events |-> <<>>]

NewOrder ==
    [state |-> "order", reqs |-> [r \in 1..NumRequests |-> NewRequest],
     invoked |-> <<>>, delivered |-> <<>>]

Event(q, e) == [q EXCEPT !.events = Append(@, e)]

\* a tracking call placed before the await of the original call
TrackingCallPlaced_BeforeAwait(q) == q.pc \in {"invoked", "returned"}

\* trackUsageAsync(...) stands after `response = await originalCreate(...)`,
\* and in the stream wrappers after the for await loop has ended
TrackingCallPlaced(q) == q.pc = "returned"

\* the patched method calls originalCreate(params, options)
O_Invoke ==
    /\ trk.state = "order"
    /\ \E r \in 1..NumRequests, kind \in RequestKinds :
          /\ trk.reqs[r].pc = "idle"
          /\ trk' = [trk EXCEPT
                       !.reqs[r] = Event([@ EXCEPT !.kind = kind, !.pc = "invoked"],
                                         "invoked"),
                       !.invoked = Append(@, r)]
    /\ UNCHANGED <<strm, call, factory, inst>>

\* await originalCreate(...) ends: a non-streaming response is observed, a
\* stream is wrapped and returned to the caller, or the rejection is re-thrown
O_OriginalSettles ==
    /\ trk.state = "order"
    /\ \E r \in 1..NumRequests, ok \in BOOLEAN :
          /\ trk.reqs[r].pc = "invoked"
          /\ trk' = [trk EXCEPT !.reqs[r] =
                IF ~ok THEN Event([@ EXCEPT !.pc = "rejected"], "rejected")
                ELSE IF @.kind = "streaming"
                THEN Event([@ EXCEPT !.pc = "streaming"], "opened")
                ELSE Event([@ EXCEPT !.pc = "returned"], "returned")]
    /\ UNCHANGED <<strm, call, factory, inst>>

\* the consumer pulls from the wrapper: a chunk is forwarded, or the
\* underlying stream has ended and the for await loop is left
O_Pull ==
    /\ trk.state = "order"
    /\ \E r \in 1..NumRequests, end \in BOOLEAN :
          /\ trk.reqs[r].pc = "streaming"
          /\ end \/ trk.reqs[r].pulls < MaxChunks
          /\ trk' = [trk EXCEPT !.reqs[r] =
                IF end THEN Event([@ EXCEPT !.pc = "returned"], "returned")
                ELSE [@ EXCEPT !.pulls = @ + 1]]
    /\ UNCHANGED <<strm, call, factory, inst>>

\* trackUsageAsync -> sendReveniumMetrics: buildPayload returns the payload
\* or throws
O_Build ==
    /\ trk.state = "order"
    /\ \E r \in 1..NumRequests, ok \in BOOLEAN :
          /\ TrackingCallPlaced(trk.reqs[r])
          /\ "built" \notin SeqRange(trk.reqs[r].events)
          /\ "buildFailed" \notin SeqRange(trk.reqs[r].events)
          /\ trk' = [trk EXCEPT !.reqs[r] =
                IF ok THEN Event([@ EXCEPT !.pc = "sending"], "built")
                ELSE Event([@ EXCEPT !.pc = "done"], "buildFailed")]
    /\ UNCHANGED <<strm, call, factory, inst>>

\* await sendToRevenium(payload) settles
O_DeliverySettles ==
    /\ trk.state = "order"
    /\ \E r \in 1..NumRequests, ok \in BOOLEAN :
          /\ trk.reqs[r].pc = "sending"
          /\ trk' = [trk EXCEPT
                       !.reqs[r] = Event([@ EXCEPT !.pc = "done"],
                                         IF ok THEN "shipped" ELSE "shipFailed"),
                       !.delivered = IF ok THEN Append(@, r) ELSE @]
    /\ UNCHANGED <<strm, call, factory, inst>>

InitOrder ==
    /\ trk = NewOrder
    /\ strm = Idle /\ call = Idle /\ factory = Idle /\ inst = Idle

NextOrder ==
    \/ O_Invoke
    \/ O_OriginalSettles
    \/ O_Pull
    \/ O_Build
    \/ O_DeliverySettles

SpecOrder == InitOrder /\ [][NextOrder]_vars

(***************************************************************************)
(* The provider descriptor of a patched instance (instance-patcher.ts).    *)
(* inst is the client instance of the patching section; factory holds the  *)
(* environment, the instanceProviders entry of the instance and what       *)
(* getProviderInfo has returned.                                           *)
(***************************************************************************)
\* the client the detection strategies see for an instance of this section
ClientOf(i, name) ==
    Client(name, IF i.hasBaseURL THEN Str("https://gateway.example.com/v1") ELSE Undefined,
           i.creates["chat"] # "absent")

\* for (const strategy of sortedStrategies) of detectProviderStrategy, run to
\* its end
RECURSIVE detectProviderStrategy(_)
detectProviderStrategy(d) ==
    IF d.state # "strategies" THEN d
    ELSE IF d.idx > Len(d.sorted)
    THEN [d EXCEPT !.state = "detected",
                   !.detection = [provider |-> "OPENAI", strategy |-> Undefined]]
    ELSE detectProviderStrategy(TryStrategy(d))

\* detectProvider(client) under the environment env: the descriptor returned
detectProvider(client, env) ==
    IF ~IsValidClient(client) THEN OpenAIDescriptor
    ELSE detectProvider_Return(
             detectProviderStrategy(
                 [NewDetection EXCEPT !.entry = "detectProvider", !.client = client,
                                      !.env = env, !.state = "strategies", !.idx = 1,
                                      !.sorted = SortStrategies(DETECTION_STRATEGIES)])).result

NewProviders(name, env) ==
    [state |-> "providers", name |-> name, env |-> env,
     instanceProviders |-> Undefined,   \* instanceProviders.get(instance)
     sets |-> 0,                        \* instanceProviders.set calls
     reads |-> <<>>]                    \* what getProviderInfo has returned

\* a patchInstance that sets the descriptor only after the three methods are
\* patched
ProviderInfoSet_AfterPatching(i) ==
    /\ ~i.patched
    /\ isOpenAIClientInstance(i)
    /\ patchOpenAIInstance(i).patched

\* patchOpenAIInstance(i) reaches instanceProviders.set(instance, providerInfo):
\* the instance is not marked and passes validation; the set comes before
\* the methods are patched
ProviderInfoSet(i) ==
    /\ ~i.patched
    /\ isOpenAIClientInstance(i)

\* getProviderInfo(instance)
getProviderInfo(p) == p.instanceProviders

Pi_NewClient ==
    /\ inst.state = "idle"
    /\ \E hasBaseURL \in BOOLEAN, creates \in [Methods -> CreateKinds],
          name \in {Str("OpenAI"), Str("AzureOpenAI"), Str("Client")}, env \in Envs :
          /\ inst' = NewInstance(hasBaseURL, creates)
          /\ factory' = NewProviders(name, env)
    /\ UNCHANGED <<strm, call, trk>>

\* patchOpenAIInstance(instance)
Pi_PatchOpenAIInstance ==
    /\ inst.state = "active"
    /\ inst.patchCalls < MaxPatchCalls
    /\ inst' = [patchOpenAIInstance(inst) EXCEPT !.patchCalls = @ + 1]
    /\ factory' = IF ProviderInfoSet(inst)
                  THEN [factory EXCEPT
                           !.instanceProviders =
                               detectProvider(ClientOf(inst, factory.name), factory.env),
                           !.sets = @ + 1]
                  ELSE factory
    /\ UNCHANGED <<strm, call, trk>>

\* the host application reads the descriptor
Pi_GetProviderInfo ==
    /\ inst.state = "active"
    /\ Len(factory.reads) < MaxPatchCalls
    /\ factory' = [factory EXCEPT !.reads = Append(@, getProviderInfo(factory))]
    /\ UNCHANGED <<strm, call, trk, inst>>

\* process.env.AZURE_OPENAI_ENDPOINT is set or deleted
Pi_SetEnv ==
    /\ inst.state = "active"
    /\ \E env \in Envs :
          /\ env # factory.env
          /\ factory' = [factory EXCEPT !.env = env]
    /\ UNCHANGED <<strm, call, trk, inst>>

InitProviders ==
    /\ inst = Idle /\ factory = Idle
    /\ strm = Idle /\ call = Idle /\ trk = Idle

NextProviders ==
    \/ Pi_NewClient
    \/ Pi_PatchOpenAIInstance
    \/ Pi_GetProviderInfo
    \/ Pi_SetEnv

SpecProviders == InitProviders /\ [][NextProviders]_vars

(***************************************************************************)
(* The client manager (core/client/manager.ts): Initialize, Configure,     *)
(* Reset, GetClient and IsInitialized over the module's globalClient, and  *)
(* the global configuration of core/config/manager.ts.  inst holds both    *)
(* and the outcome of the last call.                                       *)
(***************************************************************************)
MaxManagerCalls == 3

DEFAULT_REVENIUM_BASE_URL == Str("https://api.revenium.ai")

ApiKeys == {Undefined, Str("hak_1"), Str("sk_1")}

\* the base URLs of the model that new URL(...) accepts
ValidURLs == {DEFAULT_REVENIUM_BASE_URL, Str("https://eu.revenium.ai")}

\* the configuration objects passed to Initialize or Configure: the keys a
\* caller sets (reveniumBaseUrl undefined: the key is not given)
ManagerConfigs ==
    {[t |-> "object", reveniumApiKey |-> key, reveniumBaseUrl |-> url, azure |-> az] :
        key \in ApiKeys,
        url \in {Undefined, Str("https://eu.revenium.ai"), Str("not a url"), Str("")},
        az \in {Undefined, [t |-> "object"]}}

\* process.env as loadConfigFromEnv and loadAzureConfigFromEnv read it
ManagerEnvs ==
    {[key |-> key, url |-> url, azure |-> az] :
        key \in ApiKeys, url \in {Undefined, Str("not a url")},
        az \in {Undefined, [t |-> "object"]}}

\* reveniumApiKey.startsWith('hak_')
StartsWithHak(key) == key \in {Str("hak_1")}

\* validateConfig(config): does it throw
validateConfig_Throws(config) ==
    \/ ~Truthy(config.reveniumApiKey)
    \/ ~StartsWithHak(config.reveniumApiKey)
    \/ ~Truthy(config.reveniumBaseUrl)
    \/ config.reveniumBaseUrl \notin ValidURLs

\* { ...defaultConfig, ...config }
MergeDefaults(config) ==
    [config EXCEPT !.reveniumBaseUrl =
        IF @ = Undefined THEN DEFAULT_REVENIUM_BASE_URL ELSE @]

\* loadConfigFromEnv with the Azure configuration of loadAzureConfigFromEnv
loadConfigFromEnv(env) ==
    IF ~Truthy(env.key) THEN Null
    ELSE [t |-> "object", reveniumApiKey |-> env.key,
          reveniumBaseUrl |-> OrElse(env.url, DEFAULT_REVENIUM_BASE_URL),
          azure |-> env.azure]

\* initializeConfig on the manager state m: [m, loaded]
initializeConfig(m, env) ==
    LET envConfig == loadConfigFromEnv(env)
    IN IF envConfig = Null \/ validateConfig_Throws(envConfig)
       THEN [m |-> m, loaded |-> FALSE]
       ELSE [m |-> [m EXCEPT !.globalConfig = envConfig], loaded |-> TRUE]

\* new ReveniumOpenAI(config, provider): does the constructor throw.  The
\* SDK constructor it calls may throw as well (sdkThrows: no API key)
ReveniumOpenAI_Throws(config, provider, sdkThrows) ==
    \/ provider = "AZURE_OPENAI" /\ ~Truthy(config.azure)
    \/ sdkThrows

ReveniumOpenAI(config, provider) ==
    [t |-> "object", config |-> config, provider |-> provider]

NewManager ==
    [state |-> "manager", globalClient |-> Null, globalConfig |-> Null,
     calls |-> 0, op |-> "none",
     before |-> Null,        \* globalClient when the last call began
     threw |-> FALSE,        \* the last call threw
     returned |-> Undefined] \* what the last call returned

\* an Initialize that drops the stored client before it validates
Initialize_ClearsFirst(m, config, env, provider, sdkThrows) ==
    LET entry == [m EXCEPT !.before = m.globalClient, !.threw = FALSE,
                           !.returned = Undefined, !.globalClient = Null]
        loaded == IF Truthy(config) THEN [m |-> entry, loaded |-> TRUE]
                  ELSE initializeConfig(entry, env)
        finalConfig == IF Truthy(config) THEN MergeDefaults(config)
                       ELSE loaded.m.globalConfig
    IN IF ~loaded.loaded THEN [loaded.m EXCEPT !.threw = TRUE]
       ELSE IF validateConfig_Throws(finalConfig) THEN [loaded.m EXCEPT !.threw = TRUE]
       ELSE LET stored == [loaded.m EXCEPT !.globalConfig = finalConfig]
            IN IF provider = "throw" \/ ReveniumOpenAI_Throws(finalConfig, provider, sdkThrows)
               THEN [stored EXCEPT !.threw = TRUE]
               ELSE [stored EXCEPT !.globalClient = ReveniumOpenAI(finalConfig, provider)]

\* Initialize(config): provider is what detectProviderFromConfig returns
\* ("throw": it throws)
Initialize(m, config, env, provider, sdkThrows) ==
    LET entry == [m EXCEPT !.before = m.globalClient, !.threw = FALSE,
                           !.returned = Undefined]
        loaded == IF Truthy(config) THEN [m |-> entry, loaded |-> TRUE]
                  ELSE initializeConfig(entry, env)
        finalConfig == IF Truthy(config) THEN MergeDefaults(config)
                       ELSE loaded.m.globalConfig
    IN IF ~loaded.loaded THEN [loaded.m EXCEPT !.threw = TRUE]
       ELSE IF validateConfig_Throws(finalConfig) THEN [loaded.m EXCEPT !.threw = TRUE]
       ELSE LET stored == [loaded.m EXCEPT !.globalConfig = finalConfig]
            IN IF provider = "throw" \/ ReveniumOpenAI_Throws(finalConfig, provider, sdkThrows)
               THEN [stored EXCEPT !.threw = TRUE]
               ELSE [stored EXCEPT !.globalClient = ReveniumOpenAI(finalConfig, provider)]

\* Configure(config): Initialize(config)
Configure(m, config, env, provider, sdkThrows) ==
    Initialize(m, config, env, provider, sdkThrows)

\* Reset()
Reset(m) ==
    [m EXCEPT !.before = m.globalClient, !.threw = FALSE, !.returned = Undefined,
              !.globalClient = Null]

\* GetClient()
GetClient(m) ==
    IF ~Truthy(m.globalClient)
    THEN [m EXCEPT !.before = m.globalClient, !.threw = TRUE, !.returned = Undefined]
    ELSE [m EXCEPT !.before = m.globalClient, !.threw = FALSE,
                   !.returned = m.globalClient]

\* IsInitialized()
IsInitialized(m) == m.globalClient # Null

Providers == {"OPENAI", "AZURE_OPENAI", "throw"}

Mg_Initialize ==
    /\ inst.state = "manager" /\ inst.calls < MaxManagerCalls
    /\ \E config \in ManagerConfigs \cup {Undefined}, env \in ManagerEnvs,
          provider \in Providers, sdkThrows \in BOOLEAN :
          inst' = [Initialize(inst, config, env, provider, sdkThrows)
                      EXCEPT !.calls = @ + 1, !.op = "Initialize"]
    /\ UNCHANGED <<strm, call, factory, trk>>

Mg_Configure ==
    /\ inst.state = "manager" /\ inst.calls < MaxManagerCalls
    /\ \E config \in ManagerConfigs, env \in ManagerEnvs,
          provider \in Providers, sdkThrows \in BOOLEAN :
          inst' = [Configure(inst, config, env, provider, sdkThrows)
                      EXCEPT !.calls = @ + 1, !.op = "Configure"]
    /\ UNCHANGED <<strm, call, factory, trk>>

Mg_Reset ==
    /\ inst.state = "manager" /\ inst.calls < MaxManagerCalls
    /\ inst' = [Reset(inst) EXCEPT !.calls = @ + 1, !.op = "Reset"]
    /\ UNCHANGED <<strm, call, factory, trk>>

Mg_GetClient ==
    /\ inst.state = "manager" /\ inst.calls < MaxManagerCalls
    /\ inst' = [GetClient(inst) EXCEPT !.calls = @ + 1, !.op = "GetClient"]
    /\ UNCHANGED <<strm, call, factory, trk>>

InitManager ==
    /\ inst = NewManager
    /\ strm = Idle /\ call = Idle /\ factory = Idle /\ trk = Idle

NextManager ==
    \/ Mg_Initialize
    \/ Mg_Configure
    \/ Mg_Reset
    \/ Mg_GetClient

SpecManager == InitManager /\ [][NextManager]_vars

(***************************************************************************)
(* A wrapper iterated more than once.  Each [Symbol.asyncIterator]() call  *)
(* starts a new run of the generator function: its local variables are     *)
(* new, the wrapper's fields (StreamingWrapper) and the variables of the   *)
(* enclosing function (createTrackingStreamWrapper) are the ones the       *)
(* earlier run left.  The underlying stream was consumed by the earlier    *)
(* run: iterated again it ends at once (a finished generator) or raises    *)
(* (the SDK's Stream refuses a second iteration).  trk counts the runs.    *)
(***************************************************************************)
MaxIterations == 2

IteratedKinds == {"StreamingWrapper", "createTrackingStreamWrapper"}

\* a wrapper whose run-local state lives on the wrapper: nothing is reset
asyncIterator_Shared(s, srcEnd) ==
    [s EXCEPT !.pc = "suspendedStart", !.term = "none", !.thrown = NoError,
              !.pos = Len(s.src), !.srcEnd = srcEnd]

\* wrapper[Symbol.asyncIterator]() after an earlier run has terminated:
\* `let completed = false` is a local of the generator function
asyncIterator(s, srcEnd) ==
    [s EXCEPT !.pc = "suspendedStart", !.term = "none", !.thrown = NoError,
              !.completed = FALSE,
              !.pos = Len(s.src), !.srcEnd = srcEnd]

It_Iterate ==
    /\ trk.state = "iterations" /\ trk.count < MaxIterations
    /\ strm.pc = "completed"
    /\ \E srcEnd \in {"end", "raise"} : strm' = asyncIterator(strm, srcEnd)
    /\ trk' = [trk EXCEPT !.count = @ + 1]
    /\ UNCHANGED <<call, factory, inst>>

It_Pull ==
    /\ trk.state = "iterations"
    /\ \/ PullChunk
       \/ PullEnd
       \/ PullRaise
    /\ trk' = trk

It_Return ==
    /\ trk.state = "iterations"
    /\ \/ ConsumerReturn
       \/ ConsumerReturnBeforeStart
    /\ trk' = trk

InitIterations ==
    /\ \E kind \in IteratedKinds :
       \E src \in SeqsUpTo(ChunksOf(kind), MaxChunks) :
       \E srcEnd \in {"end", "raise"} :
           strm = NewStream(kind, src, srcEnd)
    /\ trk = [state |-> "iterations", count |-> 1]
    /\ call = Idle /\ factory = Idle /\ inst = Idle

NextIterations ==
    \/ It_Iterate
    \/ It_Pull
    \/ It_Return

SpecIterations == InitIterations /\ [][NextIterations]_vars

(***************************************************************************)
(* Two streaming calls on one client, their wrappers consumed with the     *)
(* pulls interleaved.  strm.w maps each call to the state of its wrapper.  *)
(* The variables a wrapper accumulates into (the fields of its             *)
(* StreamingWrapper, the variables of its createTrackingStreamWrapper      *)
(* call, the locals of its createResponsesTrackingStreamWrapper run)       *)
(* belong to the call that created the wrapper.                            *)
(***************************************************************************)
MaxPairChunks == 2

StreamCalls == {"A", "B"}

PairKinds ==
    {"StreamingWrapper", "createTrackingStreamWrapper",
     "createResponsesTrackingStreamWrapper"}

\* what the provider sends for each call
IdOf(w) == IF w = "A" THEN Str("id-a") ELSE Str("id-b")
ModelOf(w) == IF w = "A" THEN Str("gpt-a") ELSE Str("gpt-b")
UsageOf(w, kind) ==
    IF kind = "createResponsesTrackingStreamWrapper"
    THEN IF w = "A" THEN ResponsesUsage(3, 2) ELSE ResponsesUsage(1, 4)
    ELSE IF w = "A" THEN ChatUsage(3, 2) ELSE ChatUsage(1, 4)

\* the chunks of call w: a first chunk with id and model, a chunk with the
\* usage as well, a usage chunk without id
PairChunks(w, kind) ==
    {Chunk(IdOf(w), ModelOf(w), Undefined, Undefined, Undefined, Undefined, Undefined),
     Chunk(IdOf(w), ModelOf(w), UsageOf(w, kind), Undefined, Undefined, Undefined, Undefined),
     Chunk(Undefined, ModelOf(w), UsageOf(w, kind), Undefined, Undefined, Undefined, Undefined)}

\* the wrapper of call w; StreamingWrapper takes its model from the call's
\* parameters
PairStream(w, kind, src, srcEnd) ==
    [NewStream(kind, src, srcEnd) EXCEPT
        !.model = IF kind = "StreamingWrapper" THEN ModelOf(w) ELSE @]

\* the variables a wrapper accumulates into
AccumulatorFields ==
    {"usage", "requestId", "model", "firstTokenSeen", "completed",
     "accumulatedResponse", "finishReason", "finalResponse"}

WithAccumulators(s, a) ==
    [f \in DOMAIN s |-> IF f \in AccumulatorFields THEN a[f] ELSE s[f]]

\* one next() on a wrapper: a chunk is processed and yielded, or the end or
\* the raise of the underlying stream is handled
IteratorNext(s) ==
    IF s.pos < Len(s.src)
    THEN LET chunk == s.src[s.pos + 1]
             t == OnChunk(s, chunk)
         IN [t EXCEPT !.pos = @ + 1, !.started = TRUE, !.pc = "suspendedYield",
                      !.out = Append(@, Yielded(t, chunk))]
    ELSE IF s.srcEnd = "end"
    THEN [OnEnd(s) EXCEPT !.started = TRUE, !.pc = "completed", !.term = "end"]
    ELSE [OnRaise(s, StreamError) EXCEPT !.started = TRUE, !.pc = "completed",
                                           !.term = "raise"]

\* accumulators declared once for the module: every wrapper uses those of
\* call A
AccumulatorOwner_ModuleLevel(w) == "A"

\* the call whose variables the wrapper of call w accumulates into: its own
\* (this.usage, this.requestId; let accumulatedResponse; let finalUsage,
\* model, requestId)
AccumulatorOwner(w) == w

\* next() on the wrapper of call w
PairNext(p, w) ==
    LET o == AccumulatorOwner(w)
        t == IteratorNext(WithAccumulators(p[w], p[o]))
        p1 == [p EXCEPT ![w] = t]
    IN [p1 EXCEPT ![o] = WithAccumulators(p1[o], t)]

Pr_PullA ==
    /\ strm.state = "pair" /\ Suspended(strm.w["A"])
    /\ strm' = [strm EXCEPT !.w = PairNext(@, "A")]
    /\ UNCHANGED <<call, factory, trk, inst>>

Pr_PullB ==
    /\ strm.state = "pair" /\ Suspended(strm.w["B"])
    /\ strm' = [strm EXCEPT !.w = PairNext(@, "B")]
    /\ UNCHANGED <<call, factory, trk, inst>>

InitPair ==
    /\ \E kind \in PairKinds :
       \E srcA \in SeqsUpTo(PairChunks("A", kind), MaxPairChunks) :
       \E srcB \in SeqsUpTo(PairChunks("B", kind), MaxPairChunks) :
       \E endA \in {"end", "raise"}, endB \in {"end", "raise"} :
           strm = [state |-> "pair",
                   w |-> [c \in StreamCalls |->
                            IF c = "A" THEN PairStream("A", kind, srcA, endA)
                            ELSE PairStream("B", kind, srcB, endB)]]
    /\ call = Idle /\ factory = Idle /\ trk = Idle /\ inst = Idle

NextPair ==
    \/ Pr_PullA
    \/ Pr_PullB

SpecPair == InitPair /\ [][NextPair]_vars

(***************************************************************************)
(* Claims about the stream wrappers (SpecStream).                          *)
(***************************************************************************)
PatchedStreamKinds ==
    {"createTrackingStreamWrapper", "createResponsesTrackingStreamWrapper"}

\* C1: every iteration of a StreamingWrapper that has started and has terminated
\* made exactly one trackUsageAsync call, with finish reason null on a normal
\* end, "error" on a raise of the underlying stream and "cancelled" on an early
\* stop; while it has not terminated it has made none.
C1_StreamingWrapperExactlyOnce ==
    strm.kind = "StreamingWrapper" =>
        /\ strm.pc # "completed" => Len(strm.events) = 0
        /\ (strm.pc = "completed" /\ strm.started) =>
              /\ Len(strm.events) = 1
              /\ strm.events[1].finishReason =
                    CASE strm.term = "end" -> Null
                      [] strm.term = "raise" -> Str("error")
                      [] OTHER -> Str("cancelled")
        /\ (strm.pc = "completed" /\ ~strm.started) => Len(strm.events) = 0

\* C1 witness: a StreamingWrapper iteration stopped early by the consumer after
\* a chunk, with its one "cancelled" tracking call
C1_Witness ==
    /\ strm.kind = "StreamingWrapper" /\ strm.term = "cancel" /\ strm.started
    /\ Len(strm.out) >= 1
    /\ Len(strm.events) = 1 /\ strm.events[1].finishReason = Str("cancelled")

\* C2: in the patched-instance streaming paths, when the underlying stream
\* raises, the same error reaches the consumer and exactly one tracking call
\* with finish reason "error" is made.
C2_PatchedStreamErrorTracked ==
    (strm.kind \in PatchedStreamKinds /\ strm.term = "raise") =>
        /\ strm.thrown = StreamError
        /\ Len(strm.events) = 1
        /\ strm.events[1].finishReason = Str("error")

\* C3: in the patched-instance streaming paths, when the consumer stops early
\* (return() at a yield), exactly one tracking call with finish reason
\* "cancelled" is made.
C3_PatchedStreamCancelTracked ==
    (strm.kind \in PatchedStreamKinds /\ strm.term = "cancel" /\ strm.started) =>
        /\ Len(strm.events) = 1
        /\ strm.events[1].finishReason = Str("cancelled")

\* C4: whenever a wrapped stream is consumed to its normal end, exactly one
\* tracking call is made, for createTrackingStreamWrapper,
\* createResponsesTrackingStreamWrapper and ResponsesInterface.createStreaming
\* and for every chunk sequence.
C4_NormalEndTracked ==
    (strm.kind # "StreamingWrapper" /\ strm.term = "end") =>
        Len(strm.events) = 1

\* the usage object of the last chunk of a sequence that carried one
RECURSIVE LastUsage(_)
LastUsage(chunks) ==
    IF chunks = <<>> THEN Undefined
    ELSE IF Truthy(chunks[Len(chunks)].usage) THEN chunks[Len(chunks)].usage
    ELSE LastUsage(SubSeq(chunks, 1, Len(chunks) - 1))

\* C17: when a chat stream wrapper (StreamingWrapper,
\* createTrackingStreamWrapper) has issued its terminal metering event and
\* some chunk it consumed carried usage, the event's prompt, completion and
\* total token counts are those of the last such chunk.
C17_LatestUsageReported ==
    LET last == LastUsage(SubSeq(strm.src, 1, strm.pos))
    IN (/\ strm.kind \in {"StreamingWrapper", "createTrackingStreamWrapper"}
        /\ strm.pc = "completed"
        /\ Len(strm.events) = 1
        /\ Truthy(last))
       => /\ strm.events[1].promptTokens = last.prompt_tokens
          /\ strm.events[1].completionTokens = last.completion_tokens
          /\ strm.events[1].totalTokens = last.total_tokens

(***************************************************************************)
(* Claims about the intercepted calls (SpecCall).                          *)
(***************************************************************************)
CallSettled == call.state = "active" /\ call.pc = "done"

ChatNonStreamingResolved ==
    /\ CallSettled
    /\ call.method = "chat" /\ ~call.stream
    /\ call.result = "resolved"

\* the one event of the call is a trackUsageAsync call whose payload is not
\* streamed and carries the response's three token counts
OneEventMatchingUsage ==
    /\ Len(call.events) = 1
    /\ call.events[1].fn = "trackUsageAsync"
    /\ LET payload == PayloadOf(call.events[1].data)
           usage == call.origValue.usage
       IN /\ payload.isStreamed = FALSE
          /\ payload.inputTokenCount = usage.prompt_tokens
          /\ payload.outputTokenCount = usage.completion_tokens
          /\ payload.totalTokenCount = usage.total_tokens

C6_UpstreamRejectionNeverSuppressed ==
    (CallSettled /\ call.origOutcome = "rejected") => call.result = "rejected"

C6_Witness ==
    /\ CallSettled
    /\ call.origOutcome = "rejected"
    /\ call.origError = "E_network"
    /\ call.result = "rejected"
    /\ call.error = "NetworkError"

\* C7: an intercepted call rejects only if its original method rejected; the
\* interception layer raises no error of its own, whatever the state of the
\* handler factory.
C7_RejectsOnlyIfOriginalRejected ==
    (CallSettled /\ call.result = "rejected") => call.origOutcome = "rejected"

\* the expected shape of a Responses API response: an object whose usage
\* has numeric input, output and total token counts
isResponsesShape(obj) ==
    /\ IsObject(obj)
    /\ IsObject(obj.usage)
    /\ obj.usage.input_tokens.t = "number"
    /\ obj.usage.output_tokens.t = "number"
    /\ obj.usage.total_tokens.t = "number"

\* the original non-streaming call resolved with a value that lacks the
\* shape its handler expects
MalformedResolved ==
    /\ CallSettled /\ ~call.stream
    /\ call.origOutcome = "resolved"
    /\ CASE call.method = "chat" -> ~isOpenAIChatResponse(call.origValue)
         [] call.method = "embeddings" -> ~isOpenAIEmbeddingResponse(call.origValue)
         [] OTHER -> ~isResponsesShape(call.origValue)

\* C14: when the original non-streaming call resolved with a value lacking
\* the expected response shape, the intercepted call resolved with that same
\* value and no metering event was issued.
C14_MalformedReturnedUnmetered ==
    MalformedResolved =>
        /\ call.result = "resolved"
        /\ call.value = call.origValue
        /\ call.events = <<>>

(***************************************************************************)
(* Claims about the metering pipeline (SpecTrack, SpecTrackFair).          *)
(***************************************************************************)
MeteringFailed ==
    /\ trk.state = "active"
    /\ \/ trk.build = "threw"
       \/ trk.send = "rejected"
       \/ trk.print = "threw"

\* C8: when payload building, delivery or summary printing fails, the
\* tracking function has not thrown to its caller, its promise chain is not
\* left rejected, and the caller of the intercepted call gets the original
\* response.
C8_MeteringFailuresContained ==
    trk.state = "active" =>
        /\ trk.caller # "threw"
        /\ trk.chain # "rejected"
        /\ trk.caller = "returned" => trk.value = trk.response

C8_Witness ==
    /\ MeteringFailed
    /\ trk.op \in WrappedOperations
    /\ trk.operation = "rejected"
    /\ trk.stage = "done" /\ trk.chain = "fulfilled"
    /\ trk.caller = "returned" /\ trk.value = trk.response

\* C9: once the original call has resolved, the caller's promise resolves
\* with the response, whether or not the delivery call ever settles.
C9_CallerNeverWaitsForDelivery ==
    (trk.state = "active" /\ trk.caller # "awaitOriginal")
        ~> (trk.state = "active" /\ trk.caller = "returned"
            /\ trk.value = trk.response)

\* the caller has its response while the delivery call is still pending
C9_Witness ==
    /\ trk.state = "active"
    /\ trk.op \in WrappedOperations
    /\ trk.caller = "returned" /\ trk.value = trk.response
    /\ trk.stage = "send" /\ trk.send = "none"

\* C25: in the tracking of a chat, embedding, responses, image or audio
\* operation printUsageSummary has been invoked exactly when the payload was
\* built and sendToRevenium has settled, fulfilled or rejected; it is never
\* invoked while the delivery is outstanding.
C25_SummaryPrintedAfterDelivery ==
    trk.state = "active" =>
        /\ trk.print # "none" => (trk.build = "ok" /\ trk.send \in {"fulfilled", "rejected"})
        /\ (trk.build = "ok" /\ trk.send \in {"fulfilled", "rejected"}) => trk.print # "none"
        /\ trk.stage = "send" => (trk.send = "none" /\ trk.print = "none")

\* the delivery was rejected and the summary was printed
C25_Witness ==
    /\ trk.state = "active" /\ trk.op \in {"chat", "image"}
    /\ trk.build = "ok" /\ trk.send = "rejected" /\ trk.print = "ok"

(***************************************************************************)
(* Claims about patching (SpecPatch).                                      *)
(***************************************************************************)
\* C10: after two or more patchOpenAIInstance calls on one client instance,
\* none of its create methods carries more than one interception layer, and
\* an API call through them issues at most one metering event.
C10_AtMostOneLayer ==
    (inst.state = "active" /\ inst.patchCalls >= 2) =>
        /\ \A method \in Methods : inst.layers[method] <= 1
        /\ inst.apiEvents <= 1

PatchCalled == inst.state = "active" /\ inst.patchCalls >= 1

C12_UsageMetadataNeverForwarded ==
    (call.state = "active" /\ call.origInvoked > 0) =>
        ~call.forwarded.usageMetadata

(***************************************************************************)
(* Claims about concurrent first requests (SpecRace).                      *)
(***************************************************************************)
\* C13: however many callers are inside ensureFactoryInitialized before the
\* initialisation has completed, the initialisation is started at most once
\* (once as soon as any caller waits), every waiting caller awaits the
\* promise of that one initialisation, and a caller that has gone on to
\* routing did so with the factory initialised.
C13_SingleSharedInitialization ==
    call.state = "racing" =>
        /\ factory.initStarted <= 1
        /\ \A c \in Callers :
              /\ call.pc[c] = "awaiting" =>
                    (factory.initStarted = 1 /\ call.awaits[c] = 1)
              /\ call.pc[c] = "routed" =>
                    (call.routedInitialized[c] /\ factory.dependencies)

\* two callers waited for the one initialisation; one has gone on to routing
\* and the other is about to
C13_Witness ==
    /\ call.state = "racing"
    /\ factory.initStarted = 1
    /\ call.pc[1] = "routed" /\ call.waited[1] /\ call.routedInitialized[1]
    /\ call.pc[2] = "awaiting" /\ call.awaits[2] = call.awaits[1]

\* C16: a non-streaming chat, embeddings or responses call whose upstream
\* call failed has issued exactly one metering event, through the middleware
\* interfaces and through the patched methods' handlers.
C16_FailedCallMeteredOnce ==
    (/\ call.state = "active" /\ call.pc = "done"
     /\ ~call.stream
     /\ call.method \in Methods
     /\ call.origOutcome = "rejected")
    => Len(call.events) = 1

DetectionDone == inst.state \in {"detected", "returned"} /\ inst.entry # "none"

\* the strategies whose detect returns true on the client under detection
Matching ==
    {i \in 1..Len(DETECTION_STRATEGIES) :
        Detect(DETECTION_STRATEGIES[i], inst.client, inst.env) = "true"}

\* the matching strategy of highest priority
BestMatch ==
    CHOOSE i \in Matching :
        \A j \in Matching : DETECTION_STRATEGIES[j].priority <= DETECTION_STRATEGIES[i].priority

\* C18: detectProviderStrategy evaluates Constructor Name (100), Base URL (90),
\* Environment Variables (80) in that order, returns AZURE_OPENAI with the name
\* of the first strategy whose detect returns true, and returns OPENAI when no
\* strategy's detect returns true.
C18_HighestPriorityMatchWins ==
    /\ (inst.state \in {"strategies", "detected", "returned"} /\ inst.entry # "none")
         => /\ Len(inst.evaluated) <= 3
            /\ inst.evaluated =
                 SubSeq(<<"Constructor Name", "Base URL", "Environment Variables">>,
                        1, Len(inst.evaluated))
            /\ \A i \in 1..Len(DETECTION_STRATEGIES) :
                 DETECTION_STRATEGIES[i].priority = <<100, 90, 80>>[i]
    /\ (DetectionDone /\ inst.detection # Null)
         => IF Matching = {}
            THEN inst.detection = [provider |-> "OPENAI", strategy |-> Undefined]
            ELSE inst.detection =
                   [provider |-> "AZURE_OPENAI",
                    strategy |-> Str(DETECTION_STRATEGIES[BestMatch].name)]

\* two strategies match and the one of higher priority is reported
C18_Witness ==
    /\ DetectionDone /\ inst.detection # Null
    /\ Cardinality(Matching) >= 2
    /\ inst.detection.strategy = Str("Base URL")

\* C19: a strategy that throws is logged and skipped, so a strategy of lower
\* priority that matches is still reported; neither detectProviderStrategy nor
\* detectProvider throws, and detectProvider returns the OpenAI descriptor
\* for an invalid client.
C19_StrategiesIsolated ==
    /\ inst.state \in {"strategies", "detected", "returned"} => ~inst.threw
    /\ (DetectionDone /\ inst.detection # Null) =>
         \A i \in 1..Len(DETECTION_STRATEGIES) :
            Detect(DETECTION_STRATEGIES[i], inst.client, inst.env) = "throw"
              => /\ (\A j \in Matching : j > i)
                      => /\ DETECTION_STRATEGIES[i].name \in
                              {inst.warned[k] : k \in 1..Len(inst.warned)}
                         /\ Matching # {} => inst.detection.provider = "AZURE_OPENAI"
    /\ (inst.state = "returned" /\ inst.entry = "detectProvider")
         => /\ inst.result.provider \in {"OPENAI", "AZURE_OPENAI"}
            /\ ~IsValidClient(inst.client) => inst.result = OpenAIDescriptor

\* the first strategy threw and the second one matched
C19_Witness ==
    /\ inst.state = "returned" /\ inst.entry = "detectProvider"
    /\ Len(inst.warned) >= 1 /\ inst.warned[1] = "Constructor Name"
    /\ inst.result.isAzure
    /\ inst.detection.strategy = Str("Base URL")

(***************************************************************************)
(* Claims about model name resolution (SpecResolver).                      *)
(***************************************************************************)
\* calls i < j resolve the same non-empty name with the cache enabled and the
\* cache is not cleared between them
SameNameCachedPair(i, j) ==
    LET h == factory.history
    IN /\ i < j
       /\ h[i].op = "resolve" /\ h[j].op = "resolve"
       /\ h[i].name = h[j].name /\ h[i].name # ""
       /\ h[i].useCache /\ h[j].useCache
       /\ \A k \in i..j : h[k].op # "clear"

\* C20: of two cache-enabled resolveAzureModelName calls with the same
\* non-empty name, with any resolutions of other names between them, the second
\* returns what the first returned, is answered from modelNameCache and does
\* not run resolveModelNameHeuristic.
C20_SecondResolutionFromCache ==
    factory.state = "resolver" =>
        \A i, j \in 1..Len(factory.history) :
            SameNameCachedPair(i, j)
              => /\ factory.history[j].out = factory.history[i].out
                 /\ factory.history[j].fromCache
                 /\ ~factory.history[j].ranHeuristic

\* a name the heuristic rewrites is resolved twice with another name resolved
\* in between
C20_Witness ==
    /\ factory.state = "resolver"
    /\ Len(factory.history) >= 3
    /\ SameNameCachedPair(1, 3)
    /\ factory.history[2].op = "resolve"
    /\ factory.history[2].name \notin {"", factory.history[1].name}
    /\ factory.history[1].ranHeuristic
    /\ factory.history[3].out # factory.history[3].name

\* call j resolves an unrecognized name for the first time since the module
\* was loaded or the caches were last cleared
FirstSinceClear(j) ==
    LET h == factory.history
    IN \A i \in 1..(j - 1) :
          (h[i].op = "resolve" /\ h[i].name = h[j].name /\ h[i].ranHeuristic)
            => \E k \in (i + 1)..(j - 1) : h[k].op = "clear"

C22_SanitizeIdempotent ==
    (trk.state = "sanitizer" /\ trk.passes = 2) => trk.twice = trk.once

(***************************************************************************)
(* Claims about captured content (SpecCapture).                            *)
(***************************************************************************)
CaptureEnabled ==
    shouldCapturePrompts(strm.settings.metadata, strm.settings.config, strm.settings.env)

\* the text holds a match of one of the sanitizer's patterns that the
\* sanitizer would rewrite
HoldsSecret(text) == sanitizeCredentials(patterns, text) # text

\* C23: the responseContent handed to trackUsageAsync by StreamingWrapper,
\* CompletionsInterface.create, ResponsesInterface.create and
\* ResponsesInterface.createStreaming never holds a text matching a known
\* secret pattern.
C23_HandedContentSanitized ==
    (strm.state = "capture" /\ strm.handed # Null
        /\ strm.handed.responseContent # Undefined)
      => ~HoldsSecret(strm.handed.responseContent.v)

\* C24: in StreamingWrapper and in the ResponsesInterface.createStreaming
\* wrapper the accumulated text is empty unless prompt capture is enabled, it
\* is never longer than the maximum prompt size, and when text was cut the
\* tracking data carries a truncation flag.
C24_AccumulationBounded ==
    (strm.state = "capture" /\ strm.entry \in StreamingEntries)
      => /\ ~CaptureEnabled => strm.accumulated = <<>>
         /\ Len(strm.accumulated)
              <= getMaxPromptSize(strm.settings.config, strm.settings.env)
         /\ (/\ strm.handed # Null
             /\ \E i \in 1..strm.pos :
                   Len(strm.accumulated) < Len(strm.src[i].delta))
              => /\ "promptsTruncated" \in DOMAIN strm.handed
                 /\ strm.handed.promptsTruncated

(***************************************************************************)
(* Claims about the metrics lookup (SpecFetch, SpecFetchFair).             *)
(***************************************************************************)
FetchRequests == Cardinality({i \in 1..Len(call.events) : call.events[i] = "request"})

FetchConfigured == call.config # Null /\ Truthy(call.config.teamId)

\* requests and delays alternate, starting with a request
EventsAlternate ==
    \A i \in 1..Len(call.events) :
        call.events[i] = IF i % 2 = 1 THEN "request" ELSE "delay"

FetchSafety ==
    (call.state = "fetch" /\ call.pc # "ready") =>
        /\ FetchRequests <= call.maxRetries
        /\ ~FetchConfigured => FetchRequests = 0
        /\ EventsAlternate
        /\ call.pc = "returned" =>
             /\ Len(call.events) > 0 => call.events[Len(call.events)] = "request"
             /\ IF \E i \in 1..Len(call.outcomes) : call.outcomes[i] = "metric"
                THEN /\ call.result = Str("completions[0]")
                     /\ call.outcomes[Len(call.outcomes)] = "metric"
                     /\ \A i \in 1..(Len(call.outcomes) - 1) : call.outcomes[i] # "metric"
                ELSE /\ call.result = Null
                     /\ FetchConfigured => FetchRequests = call.maxRetries

\* C26: fetchCompletionMetrics makes at most maxRetries requests and none
\* without configuration or team id; it retries after every outcome that
\* brought no metric (401 and 403 included) until maxRetries requests are
\* made, delays only between two requests, returns the first metric or else
\* null, and every call returns.
C26_BoundedRetriesAndTermination ==
    /\ []FetchSafety
    /\ (call.state = "fetch" /\ call.pc # "ready") ~> (call.pc = "returned")

\* three requests, the first ended 401, the second brought an empty list, the
\* third a metric
C26_Witness ==
    /\ call.state = "fetch" /\ call.pc = "returned"
    /\ call.maxRetries = DefaultMaxRetries
    /\ call.outcomes = <<"status401", "emptyList", "metric">>
    /\ call.events = <<"request", "delay", "request", "delay", "request">>

(***************************************************************************)
(* Claims about the usage summary and the payloads (SpecSummary,           *)
(* SpecSummaryFair).                                                       *)
(***************************************************************************)
\* the configuration is present and names a summary format
SummaryEnabled ==
    /\ trk.config # Null
    /\ trk.config.printSummary \in {Bool(TRUE), Str("human"), Str("json")}

SummaryCalled == trk.state = "summary" /\ trk.pc # "ready"

SummarySafety ==
    SummaryCalled =>
        /\ Len(trk.printed) <= 1
        /\ ~SummaryEnabled => trk.printed = <<>>
        /\ (trk.pc = "returned" /\ SummaryEnabled) =>
              /\ Len(trk.printed) = 1
              /\ trk.printed[1].transactionId = trk.payload.transactionId
              /\ trk.printed[1].format =
                    IF trk.config.printSummary = Str("json") THEN "json" ELSE "human"

\* C27: a printUsageSummary call never prints more than one summary; it
\* prints none when the configuration is absent or printSummary names no
\* format; with a format it prints the summary of its payload exactly once,
\* at once without a team id and otherwise once the metrics lookup has
\* settled, whether with a metric, with nothing after all retries or with a
\* failure; and every started lookup leads to the print.
C27_SummaryPrintedExactlyOnce ==
    /\ []SummarySafety
    /\ (trk.state = "summary" /\ trk.pc = "lookup") ~> (trk.pc = "returned")

\* the lookup made all its requests and returned nothing; the JSON summary
\* was printed once, with the cost pending
C27_Witness ==
    /\ SummaryCalled /\ trk.pc = "returned"
    /\ call.pc = "returned" /\ call.result = Null
    /\ FetchRequests = DefaultMaxRetries
    /\ Len(trk.printed) = 1
    /\ trk.printed[1].format = "json"
    /\ trk.printed[1].text["costStatus"] = "\"pending\""

TokenCountFields == {"inputTokenCount", "outputTokenCount", "totalTokenCount"}

\* the provider reported no such count: no response carries a cache-creation
\* count, and reasoning and cached counts come with chat responses only
NotReported(field) ==
    CASE field = "reasoningTokenCount" -> trk.source.reasoning \in {Undefined, Null}
      [] field = "cacheReadTokenCount" -> trk.source.cached \in {Undefined, Null}
      [] OTHER -> TRUE

\* C28: the payload of an image or audio operation has null input, output
\* and total token counts; a reasoning, cache-read or cache-creation count
\* the provider did not report is undefined in every payload (not 0, not
\* null); and a JSON summary prints a null count as null.
C28_NotApplicableNullNotReportedAbsent ==
    SummaryCalled =>
        /\ trk.source.kind \in {"image", "audio"} =>
              \A f \in TokenCountFields : trk.payload[f] = Null
        /\ \A f \in {"reasoningTokenCount", "cacheCreationTokenCount", "cacheReadTokenCount"} :
              NotReported(f) => trk.payload[f] = Undefined
        /\ \A i \in 1..Len(trk.printed) :
              trk.printed[i].format = "json" =>
                 \A f \in TokenCountFields :
                    trk.payload[f] = Null =>
                       /\ f \in DOMAIN trk.printed[i].text
                       /\ trk.printed[i].text[f] = "null"

\* an image payload printed as JSON: the three counts read null
C28_Witness ==
    /\ SummaryCalled /\ trk.pc = "returned"
    /\ trk.source.kind = "image"
    /\ trk.payload.inputTokenCount = Null
    /\ trk.payload.reasoningTokenCount = Undefined
    /\ Len(trk.printed) = 1
    /\ trk.printed[1].format = "json"
    /\ trk.printed[1].text["totalTokenCount"] = "null"

\* C29: a cached or reasoning token count of 0 that a chat response reported
\* is 0 in the payload's cacheReadTokenCount or reasoningTokenCount.
C29_ReportedZeroPreserved ==
    (SummaryCalled /\ trk.source.kind = "chat") =>
        /\ trk.source.cached = Num(0) => trk.payload.cacheReadTokenCount = Num(0)
        /\ trk.source.reasoning = Num(0) => trk.payload.reasoningTokenCount = Num(0)

(***************************************************************************)
(* Claims about the transaction id (SpecCall).                             *)
(***************************************************************************)
\* the transaction id of the payload a tracking call of the handlers leads to
TransactionIdOf(e) ==
    IF e.fn = "trackUsageAsync" THEN PayloadOf(e.data).transactionId
    ELSE buildPayload("EMBED", call.origValue, [model |-> e.data.model, stream |-> FALSE]).transactionId

\* the ids the payload builders synthesize, each prefixed by its operation
SynthesizedIds ==
    {Str("chat-uuid"), Str("embed-uuid")}
    \cup {Str("image-" \o sub \o "-uuid") : sub \in ImageSubtypes}
    \cup {Str("audio-" \o sub \o "-uuid") : sub \in AudioSubtypes}

\* C30: the transaction id of every metering event of an intercepted call is
\* the id of the original response when it has one, and otherwise an id
\* synthesized with the operation's prefix.
C30_TransactionIdFromResponseOrPrefixed ==
    call.state = "active" =>
        \A i \in 1..Len(call.events) :
            IF Truthy(OptionalField(call.origValue, "id"))
            THEN TransactionIdOf(call.events[i]) = call.origValue.id
            ELSE TransactionIdOf(call.events[i]) \in SynthesizedIds

(***************************************************************************)
(* Claims about the trace fields (SpecTraceType, SpecRegion).              *)
(***************************************************************************)
\* the value is set, not empty, and made of letters, digits, - and _ only
TraceTypeAcceptable ==
    /\ inst.REVENIUM_TRACE_TYPE.t = "string"
    /\ inst.REVENIUM_TRACE_TYPE.v # <<>>
    /\ ~\E i \in 1..Len(inst.REVENIUM_TRACE_TYPE.v) :
           inst.REVENIUM_TRACE_TYPE.v[i] \notin
               SeqRange(LowerCaseLetters) \cup SeqRange(UpperCaseLetters) \cup Digits \cup {"-", "_"}

\* C31: getTraceType returns null for an unset or empty value and for a value
\* with a character other than a letter, a digit, - or _; otherwise it
\* returns the value itself when it has at most 128 characters and its first
\* 128 characters when it is longer.
C31_TraceTypeValidated ==
    (inst.state = "trace" /\ inst.called) =>
        IF ~TraceTypeAcceptable THEN inst.result = Null
        ELSE LET v == inst.REVENIUM_TRACE_TYPE.v
             IN /\ inst.result.t = "string"
                /\ Len(v) <= 128 => inst.result.v = v
                /\ Len(v) > 128 =>
                      /\ Len(inst.result.v) = 128
                      /\ \A i \in 1..128 : inst.result.v[i] = v[i]

\* a value of 129 acceptable characters ending in a hyphen was cut to 128
C31_Witness ==
    /\ inst.state = "trace" /\ inst.called
    /\ inst.REVENIUM_TRACE_TYPE.t = "string"
    /\ Len(inst.REVENIUM_TRACE_TYPE.v) = 129
    /\ inst.REVENIUM_TRACE_TYPE.v[129] = "-"
    /\ inst.result.t = "string"
    /\ Len(inst.result.v) = 128

\* the place in the log where the call was made
StartIndex(id) ==
    CHOOSE k \in 1..Len(factory.log) :
        factory.log[k].ev = "start" /\ factory.log[k].id = id

\* the first of the four variables that holds a text, trimmed; null if none
FirstRegionSet(env) ==
    IF \E k \in 1..Len(RegionVariables) : Truthy(env[RegionVariables[k]])
    THEN LET k == CHOOSE n \in 1..Len(RegionVariables) :
                     /\ Truthy(env[RegionVariables[n]])
                     /\ \A m \in 1..(n - 1) : ~Truthy(env[RegionVariables[m]])
         IN Trim(env[RegionVariables[k]])
    ELSE Null

\* C32: a getRegion call that finds nothing cached returns the first set of
\* the four variables, trimmed, and goes to the metadata service only when
\* none is set; and once a call has returned, every call made after it, with
\* no resetRegionCache in between, returns the same result from the cache.
C32_RegionResolvedOnceAndCached ==
    factory.state = "region" =>
        \A j \in 1..Len(factory.log) :
            factory.log[j].ev = "end" =>
                /\ (factory.log[j].source = "environment" /\ ~factory.envChanged) =>
                      factory.log[j].result = FirstRegionSet(factory.env)
                /\ (factory.log[j].source = "network" /\ ~factory.envChanged) =>
                      FirstRegionSet(factory.env) = Null
                /\ \A i \in 1..(j - 1) :
                      ( /\ factory.log[i].ev = "end"
                        /\ StartIndex(factory.log[j].id) > i
                        /\ \A k \in i..StartIndex(factory.log[j].id) :
                              factory.log[k].ev # "reset" ) =>
                          /\ factory.log[j].result = factory.log[i].result
                          /\ factory.log[j].source = "cache"

(***************************************************************************)
(* Claims about the order of a request's steps (SpecOrder).                *)
(***************************************************************************)
\* the place of an event among the events of a request, 0 if it is not there
EventIndex(events, e) ==
    IF \E i \in 1..Len(events) : events[i] = e
    THEN CHOOSE i \in 1..Len(events) : events[i] = e
    ELSE 0

\* e comes before f wherever f is there
Precedes(events, e, f) ==
    EventIndex(events, f) > 0 =>
        /\ EventIndex(events, e) > 0
        /\ EventIndex(events, e) < EventIndex(events, f)

\* C33: in every request the original call is invoked before it returns (a
\* stream: before the stream has ended), the payload is built only after
\* that, and shipped only after it was built; each of these happens at most
\* once; deliveries of different requests may complete in an order other
\* than that of their invocations.
C33_StepsInOrder ==
    trk.state = "order" =>
        \A r \in 1..NumRequests :
            LET events == trk.reqs[r].events
            IN /\ Precedes(events, "invoked", "returned")
               /\ Precedes(events, "returned", "built")
               /\ Precedes(events, "returned", "buildFailed")
               /\ Precedes(events, "built", "shipped")
               /\ Precedes(events, "built", "shipFailed")
               /\ trk.reqs[r].kind = "streaming" =>
                     Precedes(events, "opened", "returned")
               /\ \A i, j \in 1..Len(events) : events[i] = events[j] => i = j

\* two requests, the one invoked first is a stream; the payload of the one
\* invoked second was delivered first
C33_Witness ==
    /\ trk.state = "order"
    /\ trk.invoked = <<1, 2>>
    /\ trk.delivered = <<2, 1>>
    /\ trk.reqs[1].events = <<"invoked", "opened", "returned", "built", "shipped">>
    /\ trk.reqs[2].events = <<"invoked", "returned", "built", "shipped">>

(***************************************************************************)
(* Claims about the provider descriptor (SpecProviders).                   *)
(***************************************************************************)
\* C34: the descriptor of an instance is set once and never changes: the
\* descriptors getProviderInfo returns are all the same from the first one
\* on, whatever patchOpenAIInstance calls and environment changes lie in
\* between.
C34_DescriptorSetOnce ==
    factory.state = "providers" =>
        \A i, j \in 1..Len(factory.reads) :
            (i < j /\ factory.reads[i] # Undefined) => factory.reads[j] = factory.reads[i]

(***************************************************************************)
(* Claims about the client manager (SpecManager).                          *)
(***************************************************************************)
\* C35: after any sequence of Initialize, Configure and Reset calls,
\* GetClient returns the stored client exactly when IsInitialized() is true
\* and throws otherwise; Reset leaves the client uninitialised; an
\* Initialize or Configure call that throws leaves the stored client as it
\* was.
C35_ManagerClientConsistent ==
    inst.state = "manager" =>
        /\ inst.op = "GetClient" =>
              IF IsInitialized(inst)
              THEN ~inst.threw /\ inst.returned = inst.globalClient
                               /\ inst.returned.t = "object"
              ELSE inst.threw /\ inst.returned = Undefined
        /\ inst.op = "Reset" => ~IsInitialized(inst) /\ ~inst.threw
        /\ (inst.op \in {"Initialize", "Configure"} /\ inst.threw) =>
              inst.globalClient = inst.before
        /\ (inst.op \in {"Initialize", "Configure"} /\ ~inst.threw) =>
              IsInitialized(inst)

\* a client was stored, a later Initialize threw, and GetClient still
\* returned the stored client
C35_Witness ==
    /\ inst.state = "manager" /\ inst.op = "Initialize" /\ inst.threw
    /\ inst.calls = 2
    /\ inst.before # Null /\ inst.globalClient = inst.before
    /\ IsInitialized(inst)

(***************************************************************************)
(* Claims about a wrapper iterated more than once (SpecIterations).        *)
(***************************************************************************)
\* C36: one streaming call yields one metering event over the whole
\* lifetime of its wrapper: however often the wrapper is iterated, it never
\* makes a second tracking call.
C36_OneEventPerWrapper ==
    trk.state = "iterations" => Len(strm.events) <= 1

(***************************************************************************)
(* Claims about the forwarded parameters (SpecInterface).                  *)
(***************************************************************************)
\* C37: for every intercepted call, streaming calls included, the
\* parameters the original method is invoked with are the caller's
\* parameters, unmodified apart from the usageMetadata field.
C37_ParamsForwardedUnmodified ==
    (call.state = "active" /\ call.origInvoked > 0) =>
        RestWithoutUsageMetadata(call.forwarded) = RestWithoutUsageMetadata(call.params)

(***************************************************************************)
(* Claims about a failed initialisation (SpecCall).                        *)
(***************************************************************************)
InitRejected == factory.initializationPromise = "rejected"

C39_PullsFollowConsumer ==
    /\ [](/\ ~strm.started =>
                (strm.pos = 0 /\ strm.events = <<>> /\ strm.out = <<>>)
          /\ strm.pos = Len(strm.out))
    /\ [][strm'.pos <= strm.pos + 1]_vars

\* a wrapper over a stream with chunks, closed without having been
\* iterated: nothing pulled, nothing tracked
C39_Witness ==
    /\ strm.pc = "completed" /\ ~strm.started
    /\ Len(strm.src) > 0
    /\ strm.pos = 0 /\ strm.events = <<>>

(***************************************************************************)
(* Claims about interleaved streaming calls (SpecPair).                    *)
(***************************************************************************)
\* the next() calls the wrapper has served
PullsOf(s) == s.pos + (IF s.pc = "completed" THEN 1 ELSE 0)

RECURSIVE IterateAlone(_, _)
IterateAlone(s, n) == IF n = 0 THEN s ELSE IterateAlone(IteratorNext(s), n - 1)

\* the tracking calls the wrapper of call w would have made by now had it
\* been consumed alone
EventsAlone(w) ==
    LET s == strm.w[w]
    IN IterateAlone(PairStream(w, s.kind, s.src, s.srcEnd), PullsOf(s)).events

\* C40: with the chunk pulls of two streaming calls interleaved in any
\* order, the metering events of each call are those the call makes when
\* consumed alone: their id, model and token counts come from the call's
\* own chunks (or are the defaults), never from the other call's.
C40_InterleavedCallsKeepOwnData ==
    strm.state = "pair" =>
        \A w \in StreamCalls :
            /\ strm.w[w].events = EventsAlone(w)
            /\ \A i \in 1..Len(strm.w[w].events) :
                  LET e == strm.w[w].events[i]
                      u == UsageOf(w, strm.w[w].kind)
                  IN /\ e.requestId \in {IdOf(w), Str("uuid")}
                     /\ e.model \in {ModelOf(w), Str("")}
                     /\ e.totalTokens \in {u.total_tokens, Num(0)}

\* call B was consumed to its end while call A was suspended after its
\* first chunk, and B's event carries B's id and usage
C40_Witness ==
    /\ strm.state = "pair"
    /\ strm.w["A"].pc = "suspendedYield" /\ strm.w["A"].pos = 1
    /\ Len(strm.w["A"].src) = 2
    /\ strm.w["B"].term = "end"
    /\ Len(strm.w["B"].events) = 1
    /\ strm.w["B"].events[1].requestId = IdOf("B")
    /\ strm.w["B"].events[1].totalTokens = Num(5)

====
